---- MODULE Spec2Model ----
(***************************************************************************)
(* The actor-style message-passing core of the SOUL tutoring harness:      *)
(* Message, EventBus, BaseAgent and ConversationOrchestrator               *)
(* (Ablation_Study/Ablation_3_wo_Emo/core.py), the Orchestrator actor of   *)
(* Teaching_Dialogue/main.py, the inline orchestrator of                   *)
(* Ablation_Study/Ablation_4_wo_Cog/main.py, the actor core of             *)
(* Socratic_QA_System/core.py, and the dialogue pipeline of                *)
(* Teaching_Dialogue: student_agent.py, teacher_agent.py, the monitor's    *)
(* review handler and conversation_analyzer.py.                            *)
(***************************************************************************)
EXTENDS Integers, Sequences, FiniteSets, TLC

\* ------------------------------------------------------------------------
\* Bounds of the model
\* ------------------------------------------------------------------------
\* number of messages callers put on the bus
MaxMsgs == 2
\* number of worker-thread slots per actor (threads alive at the same time)
MaxWorkers == 2
\* number of tracker / orchestrator calls in the conversation specification
MaxOps == 4

\* ------------------------------------------------------------------------
\* Names
\* ------------------------------------------------------------------------
\* every name a message can carry
Names == {"student", "teacher", "monitor", "reflection", "knowledge",
          "orchestrator"}
\* the conversation ids callers and uuid4 draw from
ConvIds == {"c1", "c2"}
Workers == 1..MaxWorkers
NoThread == 0
\* agents.get(name) found nothing
NoAgent == "none"
\* conversation_id is None
NoConversationId == ""

VARIABLES
  agents,            \* EventBus.agents: name -> class of the bound actor
  message_queue,     \* EventBus.message_queue
  bus_running,       \* EventBus.running
  bus_thread,        \* position of the dispatcher thread
  bus_stopping,      \* a caller is inside EventBus.stop (join)
  inbox,             \* BaseAgent.inbox, per actor
  running,           \* BaseAgent.running, per actor
  worker_thread,     \* BaseAgent.worker_thread, per actor (latest thread)
  threads,           \* per actor and thread slot: position and message
  stopping,          \* a caller is inside BaseAgent.stop (join), per actor
  next_id,           \* source of Message ids (uuid4)
  bus_log,           \* what the dispatcher did with each message, in order
  handled,           \* per actor: ids passed to _handle_message, in order
  conversations,     \* ConversationOrchestrator.conversations
  conversation_data, \* Orchestrator.conversation_data
  clock,             \* datetime.now() as a logical clock
  ops,               \* calls made so far in the conversation specification
  student_agent,     \* StudentAgent.conversation_id and .conversation_history
  main,              \* position of main() and its local conversation_id
  teacher_agent,     \* TeacherAgent.conversation_id and .conversation_history
  llm,               \* collaborator calls that failed / reviews that rejected
  registry,          \* which instance each name is bound to, and their inboxes
  terminate,         \* the last should_terminate_conversation call
  state,             \* BaseAgent.state, per actor: the counter it keeps
  calls,             \* the BaseAgent.send_message calls made, in order
  timers             \* seconds spent in the current get, handler and join

vars == <<agents, message_queue, bus_running, bus_thread, bus_stopping,
          inbox, running, worker_thread, threads, stopping, next_id,
          bus_log, handled, conversations, conversation_data, clock, ops,
          student_agent, main, teacher_agent, llm, registry, terminate,
          state, calls, timers>>

busVars == <<agents, message_queue, bus_running, bus_thread, bus_stopping,
             next_id, bus_log>>
agentVars == <<inbox, running, worker_thread, threads, stopping, handled>>
extVars == <<teacher_agent, llm, registry, terminate, state, calls,
            timers>>
convVars == <<conversations, conversation_data, clock, ops, student_agent,
             main, teacher_agent, llm, registry, terminate, state, calls,
             timers>>

\* ------------------------------------------------------------------------
\* Message
\* ------------------------------------------------------------------------
\* the payload dictionary with every key the modelled handlers read
EmptyContent ==
  [action |-> "", conversation_id |-> "", sender |-> "", content |-> "",
   instruction |-> "", student_message |-> "", round_number |-> 0,
   raises |-> FALSE, error |-> "", original_message_id |-> 0,
   teacher_response |-> "", teacher_message |-> "", approved |-> FALSE,
   feedback |-> ""]

Message(id, sender, recipient, type, content) ==
  [id |-> id, sender |-> sender, recipient |-> recipient, type |-> type,
   content |-> content]

NoMsg == Message(0, "", "", "", EmptyContent)

\* ------------------------------------------------------------------------
\* BaseAgent.receive_message and its override
\* ------------------------------------------------------------------------
\* the names bound in the registry
Registered == {a \in Names : agents[a] # NoAgent}

\* the actors whose receive_message is BaseAgent.receive_message (inbox.put)
Queued == {a \in Names : agents[a] = "BaseAgent"}

\* the Ablation_4 orchestrator overrides receive_message and runs
\* _handle_system_control in the caller's thread; a payload the handler
\* cannot read makes the call raise
ReceiveRaises(a, m) ==
  /\ agents[a] = "InlineOrchestrator"
  /\ m.type = "system_control"
  /\ m.content.raises

\* receive_message that loses the message
Receive_lost(ib, a, m) == ib

\* the inbox of actor a after receive_message(m)
Receive(ib, a, m) ==
  IF a \in Queued THEN [ib EXCEPT ![a] = Append(@, m)] ELSE ib

\* ------------------------------------------------------------------------
\* EventBus
\* ------------------------------------------------------------------------
\* the messages callers send in the core specification
SendTemplates ==
  { [sender |-> "student", recipient |-> "orchestrator",
     type |-> "system_control", raises |-> FALSE],
    [sender |-> "student", recipient |-> "orchestrator",
     type |-> "system_control", raises |-> TRUE],
    [sender |-> "knowledge", recipient |-> "orchestrator",
     type |-> "system_control", raises |-> TRUE],
    [sender |-> "orchestrator", recipient |-> "student",
     type |-> "task_request", raises |-> FALSE],
    [sender |-> "orchestrator", recipient |-> "student",
     type |-> "task_request", raises |-> TRUE],
    [sender |-> "orchestrator", recipient |-> "student",
     type |-> "termination", raises |-> FALSE],
    [sender |-> "student", recipient |-> "knowledge",
     type |-> "task_request", raises |-> FALSE] }

\* a bus queue that hands out the newest message first
send_message_lifo(q, m) == <<m>> \o q

\* EventBus.send_message: queue.put
send_message(q, m) == Append(q, m)

Send(t) ==
  /\ next_id <= MaxMsgs
  /\ message_queue' = send_message(message_queue,
        Message(next_id, t.sender, t.recipient, t.type,
                [EmptyContent EXCEPT !.raises = t.raises]))
  /\ next_id' = next_id + 1
  /\ UNCHANGED <<agents, bus_running, bus_thread, bus_stopping, bus_log>>
  /\ UNCHANGED agentVars
  /\ UNCHANGED convVars

BusStart ==
  /\ ~bus_running
  /\ ~bus_stopping
  /\ bus_thread = "dead"
  /\ bus_running' = TRUE
  /\ bus_thread' = "check"
  /\ UNCHANGED <<agents, message_queue, bus_stopping, next_id, bus_log>>
  /\ UNCHANGED agentVars
  /\ UNCHANGED convVars

BusStop ==
  /\ ~bus_stopping
  /\ bus_running' = FALSE
  /\ bus_stopping' = (bus_thread # "dead")
  /\ UNCHANGED <<agents, message_queue, bus_thread, next_id, bus_log>>
  /\ UNCHANGED agentVars
  /\ UNCHANGED convVars

BusStopReturn ==
  /\ bus_stopping
  /\ bus_thread = "dead"
  /\ bus_stopping' = FALSE
  /\ UNCHANGED <<agents, message_queue, bus_running, bus_thread, next_id,
                 bus_log>>
  /\ UNCHANGED agentVars
  /\ UNCHANGED convVars

\* while self.running
DispatcherCheck ==
  /\ bus_thread = "check"
  /\ bus_thread' = IF bus_running THEN "get" ELSE "dead"
  /\ UNCHANGED <<agents, message_queue, bus_running, bus_stopping, next_id,
                 bus_log>>
  /\ UNCHANGED agentVars
  /\ UNCHANGED convVars

\* queue.get(timeout=1) raised queue.Empty
DispatcherEmpty ==
  /\ bus_thread = "get"
  /\ message_queue = <<>>
  /\ bus_thread' = "check"
  /\ UNCHANGED <<agents, message_queue, bus_running, bus_stopping, next_id,
                 bus_log>>
  /\ UNCHANGED agentVars
  /\ UNCHANGED convVars

\* an error message that does not name the original message
error_msg_noid(id, m) ==
  Message(id, "event_bus", m.sender, "error",
          [EmptyContent EXCEPT !.error = "delivery failed"])

\* the error Message _deliver_message builds when receive_message raised
error_msg(id, m) ==
  Message(id, "event_bus", m.sender, "error",
          [EmptyContent EXCEPT !.error = "delivery failed",
                               !.original_message_id = m.id])

\* _deliver_message(message): the inbox, the log and the id source after it
DeliverInbox(m) ==
  IF m.recipient \in Registered
    THEN IF ReceiveRaises(m.recipient, m)
           THEN IF m.sender \in Registered
                  THEN Receive(inbox, m.sender, error_msg(next_id, m))
                  ELSE inbox
           ELSE Receive(inbox, m.recipient, m)
    ELSE inbox

\* one entry of the dispatcher's log
LogEntry(ev, id, m) ==
  [ev |-> ev, id |-> id, to |-> m.recipient, from |-> m.sender,
   type |-> m.type]

DeliverLog(m) ==
  IF m.recipient \in Registered
    THEN IF ReceiveRaises(m.recipient, m)
           THEN IF m.sender \in Registered
                  THEN bus_log \o
                       << LogEntry("failed", m.id, m),
                          LogEntry("error", next_id, error_msg(next_id, m)) >>
                  ELSE Append(bus_log, LogEntry("failed", m.id, m))
           ELSE Append(bus_log, LogEntry("delivered", m.id, m))
    ELSE Append(bus_log, LogEntry("dropped", m.id, m))

DeliverNextId(m) ==
  IF m.recipient \in Registered /\ ReceiveRaises(m.recipient, m)
    THEN next_id + 1 ELSE next_id

\* a dispatcher that puts a message for an unknown name back on the queue
QueueAfterGet_retry(m) ==
  IF m.recipient \in Registered THEN Tail(message_queue)
  ELSE Append(Tail(message_queue), m)

\* the bus queue after queue.get() returned its head m
QueueAfterGet(m) == Tail(message_queue)

\* message = queue.get(); self._deliver_message(message)
DispatcherDeliver ==
  /\ bus_thread = "get"
  /\ message_queue # <<>>
  /\ LET m == Head(message_queue) IN
       /\ message_queue' = QueueAfterGet(m)
       /\ inbox' = DeliverInbox(m)
       /\ bus_log' = DeliverLog(m)
       /\ next_id' = DeliverNextId(m)
  /\ bus_thread' = "check"
  /\ UNCHANGED <<agents, bus_running, bus_stopping>>
  /\ UNCHANGED <<running, worker_thread, threads, stopping, handled>>
  /\ UNCHANGED convVars

\* ------------------------------------------------------------------------
\* BaseAgent: start, stop and the worker loop
\* ------------------------------------------------------------------------
DeadThread == [pc |-> "dead", msg |-> NoMsg]

\* the thread slot a new threading.Thread takes
FreeSlot(a) == CHOOSE w \in Workers :
  /\ threads[a][w].pc = "dead"
  /\ \A v \in Workers : threads[a][v].pc = "dead" => w <= v

\* the handler invocations of actor a that are executing now
Executing(a) == {w \in Workers : threads[a][w].pc = "handling"}

AgentStart(a) ==
  /\ ~running[a]
  /\ ~stopping[a]
  /\ \E w \in Workers : threads[a][w].pc = "dead"
  /\ running' = [running EXCEPT ![a] = TRUE]
  /\ worker_thread' = [worker_thread EXCEPT ![a] = FreeSlot(a)]
  /\ threads' = [threads EXCEPT ![a][FreeSlot(a)] =
                    [pc |-> "check", msg |-> NoMsg]]
  /\ UNCHANGED <<inbox, stopping, handled>>
  /\ UNCHANGED busVars
  /\ UNCHANGED convVars

\* stop() called from outside the worker: clear the flag, then join
AgentStop(a) ==
  /\ ~stopping[a]
  /\ running' = [running EXCEPT ![a] = FALSE]
  /\ stopping' = [stopping EXCEPT ![a] =
        /\ worker_thread[a] # NoThread
        /\ threads[a][worker_thread[a]].pc # "dead"]
  /\ UNCHANGED <<inbox, worker_thread, threads, handled>>
  /\ UNCHANGED busVars
  /\ UNCHANGED convVars

\* join returned because the worker thread ended
AgentStopReturn(a) ==
  /\ stopping[a]
  /\ threads[a][worker_thread[a]].pc = "dead"
  /\ stopping' = [stopping EXCEPT ![a] = FALSE]
  /\ UNCHANGED <<inbox, running, worker_thread, threads, handled>>
  /\ UNCHANGED busVars
  /\ UNCHANGED convVars

\* join(timeout=5) expired: the worker is still inside a handler
AgentStopTimeout(a) ==
  /\ stopping[a]
  /\ threads[a][worker_thread[a]].pc = "handling"
  /\ stopping' = [stopping EXCEPT ![a] = FALSE]
  /\ UNCHANGED <<inbox, running, worker_thread, threads, handled>>
  /\ UNCHANGED busVars
  /\ UNCHANGED convVars

\* while self.running
WorkerCheck(a, w) ==
  /\ threads[a][w].pc = "check"
  /\ threads' = [threads EXCEPT ![a][w].pc =
                    IF running[a] THEN "get" ELSE "dead"]
  /\ UNCHANGED <<inbox, running, worker_thread, stopping, handled>>
  /\ UNCHANGED busVars
  /\ UNCHANGED convVars

\* inbox.get(timeout=1) raised queue.Empty
WorkerEmpty(a, w) ==
  /\ threads[a][w].pc = "get"
  /\ inbox[a] = <<>>
  /\ threads' = [threads EXCEPT ![a][w].pc = "check"]
  /\ UNCHANGED <<inbox, running, worker_thread, stopping, handled>>
  /\ UNCHANGED busVars
  /\ UNCHANGED convVars

\* message = self.inbox.get(timeout=1); _handle_message is entered
WorkerGet(a, w) ==
  /\ threads[a][w].pc = "get"
  /\ inbox[a] # <<>>
  /\ threads' = [threads EXCEPT ![a][w] =
                    [pc |-> "handling", msg |-> Head(inbox[a])]]
  /\ inbox' = [inbox EXCEPT ![a] = Tail(@)]
  /\ UNCHANGED <<running, worker_thread, stopping, handled>>
  /\ UNCHANGED busVars
  /\ UNCHANGED convVars

\* what _handle_message did with message m: the handler returned, the
\* handler raised and the exception was caught, or no handler was found
Outcome(m) ==
  IF m.type \in {"error", "termination"} THEN "returned"
  ELSE IF m.content.raises THEN "raised" ELSE "returned"

\* a worker loop that a raising handler ends
AfterHandle_crash(m) ==
  IF Outcome(m) = "raised" THEN DeadThread
  ELSE [pc |-> "check", msg |-> NoMsg]

\* the worker thread after _handle_message(m): the loop goes on
AfterHandle(m) == [pc |-> "check", msg |-> NoMsg]

\* the running flag after the handler of m: _handle_termination calls stop()
RunningAfter(a, m) ==
  IF m.type = "termination" THEN [running EXCEPT ![a] = FALSE] ELSE running

\* _handle_message(message) with the handlers of the base class and a
\* subclass handler that raises on the payloads marked so
WorkerHandle(a, w) ==
  /\ threads[a][w].pc = "handling"
  /\ LET m == threads[a][w].msg IN
       /\ threads' = [threads EXCEPT ![a][w] = AfterHandle(m)]
       /\ running' = RunningAfter(a, m)
       /\ handled' = [handled EXCEPT ![a] =
                        Append(@, [id |-> m.id, outcome |-> Outcome(m)])]
  /\ UNCHANGED <<inbox, worker_thread, stopping>>
  /\ UNCHANGED busVars
  /\ UNCHANGED convVars

\* ------------------------------------------------------------------------
\* ConversationOrchestrator: the conversation tracker
\* ------------------------------------------------------------------------
\* conversations.get(conversation_id) is None
NoConversation ==
  [participants |-> <<>>, history |-> <<>>, current_round |-> 0,
   status |-> "none", created_at |-> 0]

\* conversation_id not in Orchestrator.conversation_data
NoData == [status |-> "none"]

\* a Message built with id="": the id is assigned when it is enqueued
Draft(sender, recipient, type, content) ==
  Message(0, sender, recipient, type, content)

\* Message.__post_init__ gives the drafts fresh ids, in the order of sending
Stamp(drafts, id0) ==
  [k \in DOMAIN drafts |-> [drafts[k] EXCEPT !.id = id0 + k - 1]]

\* a tracker that sends the opening request to every participant
StartSends_all(c, participants) ==
  [k \in DOMAIN participants |->
     Draft("orchestrator", participants[k], "task_request",
           [EmptyContent EXCEPT !.conversation_id = c,
                                !.instruction = "start_conversation"])]

\* start_conversation: the request sent to participants[0], if there is one
StartSends(c, participants) ==
  IF participants # <<>> /\ participants[1] # ""
    THEN << Draft("orchestrator", participants[1], "task_request",
                  [EmptyContent EXCEPT !.conversation_id = c,
                                       !.instruction = "start_conversation"]) >>
    ELSE <<>>

\* start_conversation: the record stored under conversation_id
start_conversation(convs, c, participants, now) ==
  [convs EXCEPT ![c] =
     [participants |-> participants, history |-> <<>>, current_round |-> 0,
      status |-> "active", created_at |-> now]]

\* a round counter that counts every message
RoundAfter_any(conv, sender) == conv.current_round + 1

\* add_message_to_conversation: current_round after a message of sender
RoundAfter(conv, sender) ==
  IF sender = "student" THEN conv.current_round + 1 ELSE conv.current_round

\* an append that stamps the entry with the round before the increment
add_message_to_conversation_stale(convs, c, sender, content, mtype) ==
  IF c \in ConvIds /\ convs[c].status # "none"
    THEN [convs EXCEPT
            ![c].current_round = RoundAfter(convs[c], sender),
            ![c].history = Append(@,
               [sender |-> sender, content |-> content, type |-> mtype,
                round |-> convs[c].current_round])]
    ELSE convs

\* add_message_to_conversation(conversation_id, sender, content, type)
add_message_to_conversation(convs, c, sender, content, mtype) ==
  IF c \in ConvIds /\ convs[c].status # "none"
    THEN [convs EXCEPT
            ![c].current_round = RoundAfter(convs[c], sender),
            ![c].history = Append(@,
               [sender |-> sender, content |-> content, type |-> mtype,
                round |-> RoundAfter(convs[c], sender)])]
    ELSE convs

\* end_conversation(conversation_id): the record
end_conversation(convs, c) ==
  IF c \in ConvIds /\ convs[c].status # "none"
    THEN [convs EXCEPT ![c].status = "completed"]
    ELSE convs

\* a tracker that tells only the first participant
EndSends_first(convs, c) ==
  IF c \in ConvIds /\ convs[c].status # "none" /\ convs[c].participants # <<>>
    THEN << Draft("orchestrator", convs[c].participants[1], "system_control",
                  [EmptyContent EXCEPT !.action = "conversation_ended",
                                       !.conversation_id = c]) >>
    ELSE <<>>

\* end_conversation(conversation_id): the notice sent to every participant
EndSends(convs, c) ==
  IF c \in ConvIds /\ convs[c].status # "none"
    THEN [k \in DOMAIN convs[c].participants |->
            Draft("orchestrator", convs[c].participants[k], "system_control",
                  [EmptyContent EXCEPT !.action = "conversation_ended",
                                       !.conversation_id = c])]
    ELSE <<>>

\* ------------------------------------------------------------------------
\* Orchestrator (Teaching_Dialogue/main.py)
\* ------------------------------------------------------------------------
\* what a call leaves behind: both dictionaries and the messages it sent
Effect(convs, data, sends) ==
  [conversations |-> convs, conversation_data |-> data, sends |-> sends]

OrchestratorParticipants == <<"student", "teacher", "monitor", "reflection">>

\* Orchestrator.start_conversation with conversation_id = str(uuid.uuid4())
Orchestrator_start_conversation(c, now) ==
  Effect(start_conversation(conversations, c, OrchestratorParticipants, now),
         [conversation_data EXCEPT ![c] = [status |-> "active"]],
         StartSends(c, OrchestratorParticipants))

\* the conversation_ended notices _end_conversation sends itself
EndingSends(c) ==
  [k \in DOMAIN OrchestratorParticipants |->
     Draft("orchestrator", OrchestratorParticipants[k], "system_control",
           [EmptyContent EXCEPT !.action = "conversation_ended",
                                !.conversation_id = c])]

\* Orchestrator._end_conversation(conversation_id, content)
Orchestrator_end_conversation(c) ==
  IF c \in ConvIds /\ conversation_data[c].status # "none"
    THEN Effect(end_conversation(conversations, c),
                [conversation_data EXCEPT ![c].status = "ending"],
                EndingSends(c) \o EndSends(conversations, c))
    ELSE Effect(conversations, conversation_data, <<>>)

\* Orchestrator._cleanup_conversation(conversation_id)
Orchestrator_cleanup_conversation(c) ==
  IF c \in ConvIds /\ conversation_data[c].status # "none"
    THEN Effect(conversations,
                [conversation_data EXCEPT ![c].status = "completed"], <<>>)
    ELSE Effect(conversations, conversation_data, <<>>)

\* Orchestrator._handle_system_control(message)
Orchestrator_handle_system_control(content) ==
  LET c == content.conversation_id IN
    IF content.action = "end_conversation" /\ c # NoConversationId
      THEN Orchestrator_end_conversation(c)
    ELSE IF content.action = "conversation_ended" /\ c # NoConversationId
      THEN Orchestrator_cleanup_conversation(c)
    ELSE IF /\ content.action = "add_message"
            /\ c # NoConversationId
            /\ content.sender # ""
            /\ content.content # ""
      THEN Effect(add_message_to_conversation(conversations, c,
                    content.sender, content.content, "message"),
                  conversation_data, <<>>)
    ELSE Effect(conversations, conversation_data, <<>>)

\* the three dictionaries and the bus queue after a call with effect e
Apply(e) ==
  /\ conversations' = e.conversations
  /\ conversation_data' = e.conversation_data
  /\ message_queue' = message_queue \o Stamp(e.sends, next_id)
  /\ next_id' = next_id + Len(e.sends)

\* ------------------------------------------------------------------------
\* The core specification: the bus, one queued actor, the inline
\* orchestrator and callers that send, start and stop
\* ------------------------------------------------------------------------
CoreAgents == {"student"}

\* main of Ablation_4_wo_Cog registers teacher, student, monitor, reflection
\* and its inline orchestrator; "knowledge" is never registered
Ablation4Registry ==
  [a \in Names |->
     IF a = "orchestrator" THEN "InlineOrchestrator"
     ELSE IF a = "knowledge" THEN NoAgent
     ELSE "BaseAgent"]

\* every name is bound to the first instance created under it; no earlier
\* instance exists, and no thread is inside register_agent / unregister_agent
NoRebinding ==
  [generation |-> [a \in Names |-> 1], retired |-> [a \in Names |-> <<>>],
   sent_to |-> <<>>,
   calls |-> [t \in {"main", "other"} |-> [pc |-> "idle", name |-> ""]],
   raised |-> {}]

\* the collaborator may fail and the monitor may reject, within the bounds;
\* failed lists the sites of the calls that returned None, rejected the
\* rounds of the drafts the monitor rejected
AnyAnswer == [failed |-> <<>>, rejected |-> <<>>, script |-> "free"]

\* should_terminate_conversation was not called
NoCall == [called |-> FALSE, conversation_id |-> NoConversationId,
           last_message |-> <<>>, result |-> FALSE]

\* no thread has waited yet
NoTime == [wait |-> 0, busy |-> 0, join |-> 0, bus_wait |-> 0, bus_join |-> 0]

\* no conversation was started, main has not begun
NoConversations ==
  /\ conversations = [c \in ConvIds |-> NoConversation]
  /\ conversation_data = [c \in ConvIds |-> NoData]
  /\ clock = 0
  /\ ops = 0
  /\ student_agent = [conversation_id |-> NoConversationId,
                      conversation_history |-> <<>>]
  /\ main = [pc |-> "knowledge", conversation_id |-> NoConversationId]
  /\ teacher_agent = [conversation_id |-> NoConversationId,
                      conversation_history |-> <<>>]
  /\ llm = AnyAnswer
  /\ registry = NoRebinding
  /\ terminate = NoCall
  /\ state = [a \in Names |-> 0]
  /\ calls = <<>>
  /\ timers = NoTime

Init ==
  /\ agents = Ablation4Registry
  /\ message_queue = <<>>
  /\ bus_running = FALSE
  /\ bus_thread = "dead"
  /\ bus_stopping = FALSE
  /\ inbox = [a \in Names |-> <<>>]
  /\ running = [a \in Names |-> FALSE]
  /\ worker_thread = [a \in Names |-> NoThread]
  /\ threads = [a \in Names |-> [w \in Workers |-> DeadThread]]
  /\ stopping = [a \in Names |-> FALSE]
  /\ next_id = 1
  /\ bus_log = <<>>
  /\ handled = [a \in Names |-> <<>>]
  /\ NoConversations

Next ==
  \/ \E t \in SendTemplates : Send(t)
  \/ BusStart
  \/ BusStop
  \/ BusStopReturn
  \/ DispatcherCheck
  \/ DispatcherEmpty
  \/ DispatcherDeliver
  \/ \E a \in CoreAgents : AgentStart(a)
  \/ \E a \in CoreAgents : AgentStop(a)
  \/ \E a \in CoreAgents : AgentStopReturn(a)
  \/ \E a \in CoreAgents : AgentStopTimeout(a)
  \/ \E a \in CoreAgents, w \in Workers : WorkerCheck(a, w)
  \/ \E a \in CoreAgents, w \in Workers : WorkerEmpty(a, w)
  \/ \E a \in CoreAgents, w \in Workers : WorkerGet(a, w)
  \/ \E a \in CoreAgents, w \in Workers : WorkerHandle(a, w)

Spec == Init /\ [][Next]_vars

\* ------------------------------------------------------------------------
\* The started system under fair scheduling: the bus and the student are
\* running, callers send, nobody calls start or stop from outside
\* ------------------------------------------------------------------------
\* main of Ablation_4_wo_Cog starts the four queued actors; the
\* specification follows the worker of the student
StartedAgents == {"teacher", "student", "monitor", "reflection"}

FairInit ==
  /\ agents = Ablation4Registry
  /\ message_queue = <<>>
  /\ bus_running = TRUE
  /\ bus_thread = "check"
  /\ bus_stopping = FALSE
  /\ inbox = [a \in Names |-> <<>>]
  /\ running = [a \in Names |-> a \in StartedAgents]
  /\ worker_thread = [a \in Names |->
        IF a \in StartedAgents THEN 1 ELSE NoThread]
  /\ threads = [a \in Names |-> [w \in Workers |->
        IF a \in StartedAgents /\ w = 1 THEN [pc |-> "check", msg |-> NoMsg]
        ELSE DeadThread]]
  /\ stopping = [a \in Names |-> FALSE]
  /\ next_id = 1
  /\ bus_log = <<>>
  /\ handled = [a \in Names |-> <<>>]
  /\ NoConversations

Dispatcher == DispatcherCheck \/ DispatcherEmpty \/ DispatcherDeliver

Worker(a) ==
  \E w \in Workers :
    WorkerCheck(a, w) \/ WorkerEmpty(a, w) \/ WorkerGet(a, w)
      \/ WorkerHandle(a, w)

FairNext ==
  \/ \E t \in SendTemplates : Send(t)
  \/ DispatcherCheck
  \/ DispatcherEmpty
  \/ DispatcherDeliver
  \/ \E a \in CoreAgents, w \in Workers : WorkerCheck(a, w)
  \/ \E a \in CoreAgents, w \in Workers : WorkerEmpty(a, w)
  \/ \E a \in CoreAgents, w \in Workers : WorkerGet(a, w)
  \/ \E a \in CoreAgents, w \in Workers : WorkerHandle(a, w)

FairSpec ==
  /\ FairInit
  /\ [][FairNext]_vars
  /\ WF_vars(Dispatcher)
  /\ \A a \in CoreAgents : WF_vars(Worker(a))

\* ------------------------------------------------------------------------
\* The conversation specification: callers invoke the tracker and the
\* Teaching_Dialogue Orchestrator in any order; the bus is not started, so
\* what the calls send stays on the bus queue
\* ------------------------------------------------------------------------
\* main of Teaching_Dialogue registers all six actors, all of them queued
DialogueRegistry == [a \in Names |-> "BaseAgent"]

ParticipantLists == { <<"student", "teacher">>, <<>> }
AppendSenders == {"student", "teacher"}
ControlActions == {"end_conversation", "conversation_ended", "add_message"}

\* the parts of the state a tracker or orchestrator call leaves alone
CallFrame ==
  /\ UNCHANGED <<agents, bus_running, bus_thread, bus_stopping, bus_log>>
  /\ UNCHANGED agentVars
  /\ UNCHANGED <<student_agent, main>>
  /\ UNCHANGED extVars

\* ConversationOrchestrator.start_conversation(c, ps, "", problem)
StartConversation(c, ps) ==
  /\ ops < MaxOps
  /\ Apply(Effect(start_conversation(conversations, c, ps, clock),
                  conversation_data, StartSends(c, ps)))
  /\ clock' = clock + 1
  /\ ops' = ops + 1
  /\ CallFrame

\* ConversationOrchestrator.add_message_to_conversation(c, sender, text)
AppendMessage(c, sender, text) ==
  /\ ops < MaxOps
  /\ Apply(Effect(add_message_to_conversation(conversations, c, sender, text,
                                              "message"),
                  conversation_data, <<>>))
  /\ ops' = ops + 1
  /\ UNCHANGED clock
  /\ CallFrame

\* ConversationOrchestrator.end_conversation(c)
EndConversation(c) ==
  /\ ops < MaxOps
  /\ Apply(Effect(end_conversation(conversations, c), conversation_data,
                  EndSends(conversations, c)))
  /\ ops' = ops + 1
  /\ UNCHANGED clock
  /\ CallFrame

\* Orchestrator.start_conversation(problem): uuid4 returns an unused id
OrchestratorStart(c) ==
  /\ ops < MaxOps
  /\ conversations[c].status = "none"
  /\ conversation_data[c].status = "none"
  /\ Apply(Orchestrator_start_conversation(c, clock))
  /\ clock' = clock + 1
  /\ ops' = ops + 1
  /\ CallFrame

\* the orchestrator's worker handles a system_control message of an actor;
\* only add_message reads the sender named in the payload
SystemControl(action, c, sender) ==
  /\ ops < MaxOps
  /\ action = "add_message" \/ sender = "student"
  /\ Apply(Orchestrator_handle_system_control(
       [EmptyContent EXCEPT !.action = action, !.conversation_id = c,
                            !.sender = sender, !.content = "text"]))
  /\ ops' = ops + 1
  /\ UNCHANGED clock
  /\ CallFrame

ConvInit ==
  /\ agents = DialogueRegistry
  /\ message_queue = <<>>
  /\ bus_running = FALSE
  /\ bus_thread = "dead"
  /\ bus_stopping = FALSE
  /\ inbox = [a \in Names |-> <<>>]
  /\ running = [a \in Names |-> FALSE]
  /\ worker_thread = [a \in Names |-> NoThread]
  /\ threads = [a \in Names |-> [w \in Workers |-> DeadThread]]
  /\ stopping = [a \in Names |-> FALSE]
  /\ next_id = 1
  /\ bus_log = <<>>
  /\ handled = [a \in Names |-> <<>>]
  /\ NoConversations

ConvNext ==
  \/ \E c \in ConvIds, ps \in ParticipantLists : StartConversation(c, ps)
  \/ \E c \in ConvIds, a \in AppendSenders : AppendMessage(c, a, "text")
  \/ \E c \in ConvIds : EndConversation(c)
  \/ \E c \in ConvIds : OrchestratorStart(c)
  \/ \E x \in ControlActions, c \in ConvIds, a \in AppendSenders :
       SystemControl(x, c, a)

ConvSpec == ConvInit /\ [][ConvNext]_vars

\* ------------------------------------------------------------------------
\* The dialogue specification: main of Teaching_Dialogue after start-up,
\* the dispatcher, and the workers of the student and the orchestrator,
\* under fair scheduling.  The pipelines of the teacher, the monitor, the
\* reflection and the knowledge actor are not part of it: their inboxes
\* keep what they are sent.
\* ------------------------------------------------------------------------
DialogueAgents == {"student", "orchestrator"}

\* llm_manager.call_llm returns a text, or None when the call failed
LLMResponses == {"reply", ""}

\* the default reply _generate_first_message uses when the call failed
FallbackReply == "fallback"

MainFrame ==
  /\ UNCHANGED <<agents, bus_running, bus_thread, bus_stopping, bus_log>>
  /\ UNCHANGED agentVars
  /\ UNCHANGED <<ops, student_agent>>
  /\ UNCHANGED extVars

\* teacher_agent.send_message(recipient="knowledge", TASK_REQUEST, ...)
MainRequestKnowledge ==
  /\ main.pc = "knowledge"
  /\ Apply(Effect(conversations, conversation_data,
       << Draft("teacher", "knowledge", "task_request",
                [EmptyContent EXCEPT
                   !.conversation_id = "pre_conversation"]) >>))
  /\ main' = [main EXCEPT !.pc = "start"]
  /\ UNCHANGED clock
  /\ MainFrame

\* conversation_id = orchestrator_agent.start_conversation(problem, 5)
MainStartConversation(c) ==
  /\ main.pc = "start"
  /\ Apply(Orchestrator_start_conversation(c, clock))
  /\ clock' = clock + 1
  /\ main' = [pc |-> "wait", conversation_id |-> c]
  /\ MainFrame

\* the wait loop ends: it saw status "completed", or it timed out and
\* main calls orchestrator_agent._end_conversation itself
MainWait ==
  /\ main.pc = "wait"
  /\ IF conversation_data[main.conversation_id].status = "completed"
       THEN Apply(Effect(conversations, conversation_data, <<>>))
       ELSE Apply(Orchestrator_end_conversation(main.conversation_id))
  /\ main' = [main EXCEPT !.pc = "done"]
  /\ UNCHANGED clock
  /\ MainFrame

\* StudentAgent._add_to_conversation_history("student", text)
StudentHistoryAfter(text) ==
  Append(student_agent.conversation_history,
         [sender |-> "student", content |-> text,
          round |-> (Len(student_agent.conversation_history) \div 2) + 1])

\* StudentAgent._handle_task_request: self.conversation_id after its head
StudentConversationId(m) ==
  IF m.content.conversation_id # NoConversationId
    THEN m.content.conversation_id
    ELSE student_agent.conversation_id

\* _generate_first_message: the text of the first turn
FirstMessage(response) == IF response = "" THEN FallbackReply ELSE response

\* _generate_first_message asks the orchestrator to record the turn, then
\* _handle_task_request sends the turn to the teacher
FirstTurnSends(cid, text) ==
  << Draft("student", "orchestrator", "system_control",
           [EmptyContent EXCEPT !.action = "add_message",
                                !.conversation_id = cid,
                                !.sender = "student",
                                !.content = text]),
     Draft("student", "teacher", "task_request",
           [EmptyContent EXCEPT !.conversation_id = cid,
                                !.student_message = text,
                                !.round_number = 1]) >>

\* StudentAgent._handle_task_request(message)
StudentTaskRequest(m, response) ==
  IF m.content.instruction = "start_conversation"
    THEN /\ student_agent' =
              [conversation_id |-> StudentConversationId(m),
               conversation_history |->
                 StudentHistoryAfter(FirstMessage(response))]
         /\ Apply(Effect(conversations, conversation_data,
              FirstTurnSends(StudentConversationId(m),
                             FirstMessage(response))))
    ELSE /\ student_agent' =
              [student_agent EXCEPT
                 !.conversation_id = StudentConversationId(m)]
         /\ Apply(Effect(conversations, conversation_data, <<>>))

\* StudentAgent._handle_system_control(message)
StudentSystemControl(m) ==
  IF m.content.action = "conversation_ended"
    THEN /\ student_agent' =
              [student_agent EXCEPT !.conversation_id = NoConversationId]
         /\ Apply(Effect(conversations, conversation_data, <<>>))
  ELSE IF /\ m.content.action = "get_conversation_history"
          /\ m.content.conversation_id = student_agent.conversation_id
    THEN /\ UNCHANGED student_agent
         /\ Apply(Effect(conversations, conversation_data,
              << Draft("student", "orchestrator", "system_control",
                   [EmptyContent EXCEPT
                      !.action = "conversation_history_response",
                      !.conversation_id = m.content.conversation_id]) >>))
  ELSE /\ UNCHANGED student_agent
       /\ Apply(Effect(conversations, conversation_data, <<>>))

\* the worker frame of a handler that returned
HandlerReturned(a, w, m) ==
  /\ threads' = [threads EXCEPT ![a][w] = AfterHandle(m)]
  /\ handled' = [handled EXCEPT ![a] =
                   Append(@, [id |-> m.id, outcome |-> "returned"])]
  /\ UNCHANGED <<agents, bus_running, bus_thread, bus_stopping, bus_log>>
  /\ UNCHANGED <<inbox, running, worker_thread, stopping>>
  /\ UNCHANGED <<clock, ops, main>>
  /\ UNCHANGED extVars

\* the student's worker runs the handler of a request or a control message
StudentHandle(w) ==
  /\ threads["student"][w].pc = "handling"
  /\ LET m == threads["student"][w].msg IN
       /\ m.type \in {"task_request", "system_control"}
       /\ IF m.type = "task_request"
            THEN \E response \in LLMResponses : StudentTaskRequest(m, response)
            ELSE StudentSystemControl(m)
       /\ HandlerReturned("student", w, m)

\* the orchestrator's worker runs _handle_system_control
OrchestratorHandle(w) ==
  /\ threads["orchestrator"][w].pc = "handling"
  /\ LET m == threads["orchestrator"][w].msg IN
       /\ m.type = "system_control"
       /\ Apply(Orchestrator_handle_system_control(m.content))
       /\ HandlerReturned("orchestrator", w, m)
  /\ UNCHANGED student_agent

DialogueInit ==
  /\ agents = DialogueRegistry
  /\ message_queue = <<>>
  /\ bus_running = TRUE
  /\ bus_thread = "check"
  /\ bus_stopping = FALSE
  /\ inbox = [a \in Names |-> <<>>]
  /\ running = [a \in Names |-> TRUE]
  /\ worker_thread = [a \in Names |-> 1]
  /\ threads = [a \in Names |-> [w \in Workers |->
        IF w = 1 THEN [pc |-> "check", msg |-> NoMsg] ELSE DeadThread]]
  /\ stopping = [a \in Names |-> FALSE]
  /\ next_id = 1
  /\ bus_log = <<>>
  /\ handled = [a \in Names |-> <<>>]
  /\ NoConversations

DialogueWorker(a) ==
  \E w \in Workers :
    \/ WorkerCheck(a, w)
    \/ WorkerEmpty(a, w)
    \/ WorkerGet(a, w)
    \/ a = "student" /\ StudentHandle(w)
    \/ a = "orchestrator" /\ OrchestratorHandle(w)

DialogueNext ==
  \/ MainRequestKnowledge
  \/ \E c \in ConvIds : MainStartConversation(c)
  \/ MainWait
  \/ DispatcherCheck
  \/ DispatcherEmpty
  \/ DispatcherDeliver
  \/ \E a \in DialogueAgents, w \in Workers : WorkerCheck(a, w)
  \/ \E a \in DialogueAgents, w \in Workers : WorkerEmpty(a, w)
  \/ \E a \in DialogueAgents, w \in Workers : WorkerGet(a, w)
  \/ \E w \in Workers : StudentHandle(w)
  \/ \E w \in Workers : OrchestratorHandle(w)

DialogueSpec ==
  /\ DialogueInit
  /\ [][DialogueNext]_vars
  /\ WF_vars(Dispatcher)
  /\ \A a \in DialogueAgents : WF_vars(DialogueWorker(a))

\* ------------------------------------------------------------------------
\* Observations used by the properties
\* ------------------------------------------------------------------------
MsgIds == 1..(2 * MaxMsgs)

Range(sq) == {sq[k] : k \in DOMAIN sq}

\* the positions of the log at which event ev happened to message i
LogAt(ev, i) == {k \in DOMAIN bus_log : bus_log[k].ev = ev /\ bus_log[k].id = i}

InQueue(i) == \E k \in DOMAIN message_queue : message_queue[k].id = i

QueuedFor(i, as) ==
  \E k \in DOMAIN message_queue :
    message_queue[k].id = i /\ message_queue[k].recipient \in as

InInbox(a, i) == \E k \in DOMAIN inbox[a] : inbox[a][k].id = i

InboxAt(a, i) == {k \in DOMAIN inbox[a] : inbox[a][k].id = i}

Handled(a, i) == \E k \in DOMAIN handled[a] : handled[a][k].id = i

\* ------------------------------------------------------------------------
\* Properties of the bus and the actor base
\* ------------------------------------------------------------------------

C2_Fifo ==
  /\ \A j, k \in DOMAIN bus_log :
       (j < k /\ bus_log[j].ev # "error" /\ bus_log[k].ev # "error")
         => bus_log[j].id < bus_log[k].id
  /\ \A a \in Names : \A j, k \in DOMAIN inbox[a] :
       (j < k /\ inbox[a][j].type # "error" /\ inbox[a][k].type # "error")
         => inbox[a][j].id < inbox[a][k].id
  /\ \A j, k \in DOMAIN message_queue :
       j < k => message_queue[j].id < message_queue[k].id
  /\ \A k \in DOMAIN message_queue : \A j \in DOMAIN bus_log :
       bus_log[j].ev # "error" => bus_log[j].id < message_queue[k].id

C2_Witness ==
  /\ Len(inbox["student"]) >= 2
  /\ inbox["student"][1].id < inbox["student"][2].id
  /\ \E j, k \in DOMAIN bus_log :
       /\ j < k
       /\ bus_log[j].ev = "delivered" /\ bus_log[k].ev = "delivered"
       /\ bus_log[j].to = "student" /\ bus_log[k].to = "student"

\* C3: at most one handler invocation of an actor executes at any time
\* (fails: stop() whose join expired followed by start() leaves two
\* worker threads draining the same inbox).
C3_SingleWriter == \A a \in Names : Cardinality(Executing(a)) <= 1

\* C7: a message for a name that is not registered is accepted by the
\* queue, dropped once by the dispatcher (no retry, no inbox, no error
\* notice), and every message queued behind it is still dispatched.
C7_DropOnUnknown ==
  /\ [](\A k \in DOMAIN bus_log : bus_log[k].to \notin Registered =>
          /\ bus_log[k].ev \in {"dropped", "error"}
          /\ bus_log[k].ev = "dropped" =>
               /\ \A j \in DOMAIN bus_log :
                    bus_log[j].id = bus_log[k].id => j = k
               /\ ~InQueue(bus_log[k].id)
               /\ \A a \in Names : \A n \in DOMAIN inbox[a] :
                    /\ inbox[a][n].id # bus_log[k].id
                    /\ inbox[a][n].content.original_message_id
                         # bus_log[k].id)
  /\ \A i \in MsgIds :
       InQueue(i) ~> (\E k \in DOMAIN bus_log : bus_log[k].id = i)

C7_Witness ==
  \E j, k \in DOMAIN bus_log :
    /\ j < k
    /\ bus_log[j].ev = "dropped"
    /\ bus_log[k].ev = "delivered"
    /\ InInbox(bus_log[k].to, bus_log[k].id)

NoticeWith(a, k) ==
  LET j == bus_log[k + 1].id IN
    /\ \/ InInbox(a, j)
       \/ \E w \in Workers : threads[a][w].msg.id = j
       \/ Handled(a, j)
    /\ \A n \in DOMAIN inbox[a] : inbox[a][n].id = j =>
         /\ inbox[a][n].type = "error"
         /\ inbox[a][n].sender = "event_bus"
         /\ inbox[a][n].recipient = a
         /\ inbox[a][n].content.error # ""
         /\ inbox[a][n].content.original_message_id = bus_log[k].id

NoticeLogged(k) ==
  /\ k + 1 \in DOMAIN bus_log
  /\ bus_log[k + 1].ev = "error"
  /\ bus_log[k + 1].to = bus_log[k].from

SameConversation(c) ==
  /\ conversations[c].status # "none"
  /\ conversations'[c].status # "none"
  /\ conversations'[c].created_at = conversations[c].created_at

\* the number of entries of history h written by the student
StudentTurns(h) == Cardinality({k \in DOMAIN h : h[k].sender = "student"})

C5_TerminalIdempotence ==
  [][\A c \in ConvIds :
       (SameConversation(c) /\ conversations[c].status = "completed") =>
         /\ conversations'[c].current_round = conversations[c].current_round
         /\ conversations'[c].history = conversations[c].history]_vars

\* the position of a status on the path active, ending, completed
Rank(status) ==
  IF status = "none" THEN 0
  ELSE IF status = "active" THEN 1
  ELSE IF status = "ending" THEN 2
  ELSE 3

\* C6: the status of a conversation id only moves forward along active,
\* ending, completed, in the tracker's record and in the orchestrator's
\* conversation_data, under any sequence of calls (fails: a second
\* start_conversation for the id makes a completed record active again,
\* and a second end_conversation request writes "ending" over
\* "completed").
C6_StatusForward ==
  [][\A c \in ConvIds :
       /\ Rank(conversations'[c].status) >= Rank(conversations[c].status)
       /\ Rank(conversation_data'[c].status)
            >= Rank(conversation_data[c].status)]_vars

\* ------------------------------------------------------------------------
\* Properties of the opening of a dialogue
\* ------------------------------------------------------------------------
\* the request start_conversation sends
IsStartRequest(m) ==
  /\ m.type = "task_request"
  /\ m.sender = "orchestrator"
  /\ m.content.instruction = "start_conversation"

StartRequestsQueued ==
  {k \in DOMAIN message_queue : IsStartRequest(message_queue[k])}

\* the log entries of requests of the orchestrator handed to an inbox
StartRequestsDelivered ==
  {k \in DOMAIN bus_log :
     /\ bus_log[k].ev = "delivered"
     /\ bus_log[k].type = "task_request"
     /\ bus_log[k].from = "orchestrator"}

\* the requests lying in the inbox of actor a
RequestsIn(a) ==
  {k \in DOMAIN inbox[a] : inbox[a][k].type = "task_request"}

\* C10: starting a conversation creates an active record with round 0 and
\* puts exactly one request for the first participant, the student, on the
\* bus; that request reaches the student's inbox, once, and no request of
\* the orchestrator reaches any other participant; the step that appends
\* the student's first reply makes the round 1, and that step is taken.
C10_ScenarioA ==
  /\ [][\A c \in ConvIds :
          (conversations[c].status = "none"
             /\ conversations'[c].status # "none") =>
            /\ conversations'[c].status = "active"
            /\ conversations'[c].current_round = 0
            /\ conversations'[c].history = <<>>
            /\ Len(message_queue') = Len(message_queue) + 1
            /\ SubSeq(message_queue', 1, Len(message_queue)) = message_queue
            /\ LET m == message_queue'[Len(message_queue')] IN
                 /\ IsStartRequest(m)
                 /\ m.recipient = conversations'[c].participants[1]
                 /\ m.recipient = "student"
                 /\ m.content.conversation_id = c]_vars
  /\ [](/\ Cardinality(StartRequestsQueued)
             + Cardinality(StartRequestsDelivered) <= 1
        /\ \A k \in StartRequestsQueued :
             message_queue[k].recipient = "student"
        /\ \A k \in StartRequestsDelivered : bus_log[k].to = "student"
        /\ Cardinality(RequestsIn("student")) <= 1
        /\ \A a \in Names \ {"student"} : \A k \in DOMAIN inbox[a] :
             ~IsStartRequest(inbox[a][k]))
  /\ (StartRequestsQueued # {}) ~> (StartRequestsDelivered # {})
  /\ [][\A c \in ConvIds :
          ( /\ SameConversation(c)
            /\ StudentTurns(conversations[c].history) = 0
            /\ StudentTurns(conversations'[c].history) = 1 )
          => conversations'[c].current_round = 1]_vars
  /\ \A c \in ConvIds :
       (conversations[c].status # "none")
         ~> (/\ conversations[c].current_round = 1
             /\ StudentTurns(conversations[c].history) = 1)

C10_Witness ==
  \E c \in ConvIds :
    /\ conversations[c].status = "active"
    /\ conversations[c].current_round = 1
    /\ Len(conversations[c].history) = 1
    /\ conversations[c].history[1].sender = "student"
    /\ Cardinality(StartRequestsDelivered) = 1
    /\ \E k \in DOMAIN handled["student"] :
         handled["student"][k].id = bus_log[CHOOSE j \in StartRequestsDelivered : TRUE].id
    /\ \A a \in {"teacher", "monitor", "reflection"} :
         \A k \in DOMAIN bus_log :
           bus_log[k].to = a => bus_log[k].from # "orchestrator"
    /\ \E k \in DOMAIN inbox["teacher"] :
         inbox["teacher"][k].content.round_number = 1

\* ------------------------------------------------------------------------
\* Properties of ending a conversation
\* ------------------------------------------------------------------------
\* the messages a step appended to the bus queue, when nothing was taken
Appended ==
  IF Len(message_queue') >= Len(message_queue)
    THEN SubSeq(message_queue', Len(message_queue) + 1, Len(message_queue'))
    ELSE <<>>

\* a step that ends the active conversation c
Ends(c) ==
  /\ SameConversation(c)
  /\ conversations[c].status = "active"
  /\ conversations'[c].status = "completed"

\* the step sent every participant of c a notice of the given type; a
\* termination message carries no action, a system_control one names it
NoticeToAll(c, type) ==
  \A k \in DOMAIN conversations[c].participants :
    \E j \in DOMAIN Appended :
      /\ Appended[j].recipient = conversations[c].participants[k]
      /\ Appended[j].sender = "orchestrator"
      /\ Appended[j].type = type
      /\ Appended[j].content.conversation_id = c
      /\ type = "system_control" =>
           Appended[j].content.action = "conversation_ended"

\* C13 as stated: ending an active conversation sets its status to
\* "completed" and sends a message of type termination to every participant
\* of that conversation.
C13_Original ==
  [][\A c \in ConvIds : Ends(c) => NoticeToAll(c, "termination")]_vars

\* C13: ending an active conversation sets its status to "completed" and
\* sends a system_control message with action conversation_ended to every
\* participant of that conversation.
C13_EndNotifies ==
  [][\A c \in ConvIds :
       /\ Ends(c) => NoticeToAll(c, "system_control")
       /\ (SameConversation(c) /\ conversations[c].status = "active") =>
            conversations'[c].status \in {"active", "completed"}]_vars

\* both participants of an ended conversation have their notice queued
C13_Witness ==
  \E c \in ConvIds :
    /\ conversations[c].status = "completed"
    /\ conversations[c].participants = <<"student", "teacher">>
    /\ \A p \in {"student", "teacher"} :
         \E k \in DOMAIN message_queue :
           /\ message_queue[k].recipient = p
           /\ message_queue[k].type = "system_control"
           /\ message_queue[k].content.action = "conversation_ended"
           /\ message_queue[k].content.conversation_id = c

\* ------------------------------------------------------------------------
\* The termination specification: a tracker with one conversation whose
\* round is raised by student messages, and should_terminate_conversation
\* called with every short text
\* ------------------------------------------------------------------------
\* the longest last_message the calls are made with
MaxText == 3

\* ConversationOrchestrator.max_rounds
max_rounds == 7

\* a text is the sequence of its characters; the characters of the four
\* keywords are written by their pinyin, "a" is any other character
termination_keywords ==
  << <<"li", "jie3", "le">>, <<"ming", "bai", "le">>, <<"xie", "xie">>,
     <<"jie2", "shu">> >>

Characters == {"li", "jie3", "le", "ming", "bai", "xie", "jie2", "shu", "a"}

Texts == UNION {[1..n -> Characters] : n \in 0..MaxText}

\* keyword in last_message
Contains(text, keyword) ==
  \E i \in 1..(Len(text) - Len(keyword) + 1) :
    SubSeq(text, i, i + Len(keyword) - 1) = keyword

\* a round test that lets the round of the maximum pass
RoundLimitReached_after(conv) == conv.current_round > max_rounds

\* conversation["current_round"] >= self.max_rounds
RoundLimitReached(conv) == conv.current_round >= max_rounds

\* should_terminate_conversation(conversation_id, last_message)
should_terminate_conversation(convs, c, last_message) ==
  IF convs[c].status = "none" THEN TRUE
  ELSE IF RoundLimitReached(convs[c]) THEN TRUE
  ELSE IF \E k \in DOMAIN termination_keywords :
            Contains(last_message, termination_keywords[k]) THEN TRUE
  ELSE FALSE

\* the parts of the state the termination specification never touches
TerminateFrame ==
  /\ UNCHANGED <<agents, bus_running, bus_thread, bus_stopping, bus_log,
                 message_queue, next_id>>
  /\ UNCHANGED agentVars
  /\ UNCHANGED <<conversation_data, clock, ops, student_agent, main,
                 teacher_agent, llm, registry, state, calls, timers>>

\* a caller asks whether conversation c should end after last_message
ShouldTerminate(c, last_message) ==
  /\ ~terminate.called
  /\ terminate' = [called |-> TRUE, conversation_id |-> c,
                   last_message |-> last_message,
                   result |-> should_terminate_conversation(conversations, c,
                                                            last_message)]
  /\ UNCHANGED conversations
  /\ TerminateFrame

\* the caller has its answer and the next student message is recorded;
\* nothing stops the tracker from counting past max_rounds
TerminateAppend(c) ==
  /\ conversations[c].status # "none"
  /\ conversations[c].current_round <= max_rounds
  /\ conversations' = add_message_to_conversation(conversations, c,
                                                  "student", "text", "message")
  /\ terminate' = NoCall
  /\ TerminateFrame

\* start_conversation("c1", ["student", "teacher"], "", problem), once
TerminateStart ==
  /\ ~terminate.called
  /\ conversations["c1"].status = "none"
  /\ Apply(Effect(start_conversation(conversations, "c1",
                                     <<"student", "teacher">>, clock),
                  conversation_data,
                  StartSends("c1", <<"student", "teacher">>)))
  /\ clock' = clock + 1
  /\ UNCHANGED ops
  /\ CallFrame

TerminateNext ==
  \/ TerminateStart
  \/ \E c \in ConvIds, t \in Texts : ShouldTerminate(c, t)
  \/ \E c \in ConvIds : TerminateAppend(c)

TerminateSpec == ConvInit /\ [][TerminateNext]_vars

\* ------------------------------------------------------------------------
\* Properties of should_terminate_conversation
\* ------------------------------------------------------------------------
\* the text holds one of the four closing keywords
HasKeyword(text) ==
  \/ \E i \in DOMAIN text : text[i] = "li" /\ i + 2 <= Len(text)
                             /\ text[i + 1] = "jie3" /\ text[i + 2] = "le"
  \/ \E i \in DOMAIN text : text[i] = "ming" /\ i + 2 <= Len(text)
                             /\ text[i + 1] = "bai" /\ text[i + 2] = "le"
  \/ \E i \in DOMAIN text : text[i] = "xie" /\ i + 1 <= Len(text)
                             /\ text[i + 1] = "xie"
  \/ \E i \in DOMAIN text : text[i] = "jie2" /\ i + 1 <= Len(text)
                             /\ text[i + 1] = "shu"

\* C12: for an existing conversation should_terminate_conversation answers
\* true whenever the round is at least max_rounds, whatever the latest
\* text; below max_rounds it answers true exactly when the latest text
\* holds one of the closing keywords, and false otherwise.
C12_TerminateOrder ==
  (terminate.called /\ conversations[terminate.conversation_id].status # "none")
    => LET round == conversations[terminate.conversation_id].current_round IN
         /\ round >= 7 => terminate.result
         /\ round < 7 =>
              (terminate.result <=> HasKeyword(terminate.last_message))

\* the answer at the round of the maximum for a text without keyword
C12_Witness ==
  /\ terminate.called
  /\ conversations[terminate.conversation_id].status # "none"
  /\ conversations[terminate.conversation_id].current_round = 7
  /\ terminate.last_message = <<"a">>
  /\ terminate.result

\* ------------------------------------------------------------------------
\* The Socratic specification: EventBus and BaseAgent of
\* Socratic_QA_System/core.py, whose receive_message runs the handler in
\* the caller's thread and whose message loop only sleeps
\* ------------------------------------------------------------------------
\* SocraticSystem registers teacher, monitor and the knowledge state agent
SocraticRegistry ==
  [a \in Names |-> IF a \in {"teacher", "monitor", "knowledge"}
                     THEN "SocraticAgent" ELSE NoAgent]

\* the actors whose start and stop are called
SocraticAgents == {"teacher", "monitor"}

\* message_handlers of the base class
SocraticHandlers == {"heartbeat", "system_control"}

SocraticTemplates ==
  { [sender |-> "teacher", recipient |-> "monitor", type |-> "system_control"],
    [sender |-> "teacher", recipient |-> "monitor", type |-> "review_request"],
    [sender |-> "monitor", recipient |-> "student", type |-> "heartbeat"] }

\* the message loop threads of actor a that are alive
LoopThreads(a) == {w \in Workers : threads[a][w].pc # "dead"}

\* the parts of the state the Socratic core does not have
SocraticFrame ==
  /\ UNCHANGED <<agents, bus_stopping, inbox>>
  /\ UNCHANGED convVars

\* BaseAgent.start(): a new thread runs _message_loop and becomes
\* message_thread, whatever self.running was
SocraticStart(a) ==
  /\ ~stopping[a]
  /\ \E w \in Workers : threads[a][w].pc = "dead"
  /\ running' = [running EXCEPT ![a] = TRUE]
  /\ threads' = [threads EXCEPT ![a][FreeSlot(a)] =
                    [pc |-> "loop", msg |-> NoMsg]]
  /\ worker_thread' = [worker_thread EXCEPT ![a] = FreeSlot(a)]
  /\ UNCHANGED <<stopping, handled>>
  /\ UNCHANGED <<message_queue, bus_running, bus_thread, next_id, bus_log>>
  /\ SocraticFrame

\* BaseAgent.stop(): clear the flag, join message_thread
SocraticStop(a) ==
  /\ ~stopping[a]
  /\ running' = [running EXCEPT ![a] = FALSE]
  /\ stopping' = [stopping EXCEPT ![a] =
        /\ worker_thread[a] # NoThread
        /\ threads[a][worker_thread[a]].pc # "dead"]
  /\ UNCHANGED <<worker_thread, threads, handled>>
  /\ UNCHANGED <<message_queue, bus_running, bus_thread, next_id, bus_log>>
  /\ SocraticFrame

\* join returned: message_thread left its loop
SocraticStopReturn(a) ==
  /\ stopping[a]
  /\ threads[a][worker_thread[a]].pc = "dead"
  /\ stopping' = [stopping EXCEPT ![a] = FALSE]
  /\ UNCHANGED <<running, worker_thread, threads, handled>>
  /\ UNCHANGED <<message_queue, bus_running, bus_thread, next_id, bus_log>>
  /\ SocraticFrame

\* _message_loop: while self.running: sleep; the thread ends once it sees
\* the flag cleared
SocraticLoopExit(a, w) ==
  /\ threads[a][w].pc = "loop"
  /\ ~running[a]
  /\ threads' = [threads EXCEPT ![a][w] = DeadThread]
  /\ UNCHANGED <<running, worker_thread, stopping, handled>>
  /\ UNCHANGED <<message_queue, bus_running, bus_thread, next_id, bus_log>>
  /\ SocraticFrame

\* EventBus.send_message: append under the lock
SocraticSend(t) ==
  /\ next_id <= MaxMsgs
  /\ message_queue' = Append(message_queue,
        Message(next_id, t.sender, t.recipient, t.type, EmptyContent))
  /\ next_id' = next_id + 1
  /\ UNCHANGED <<bus_running, bus_thread, bus_log>>
  /\ UNCHANGED <<running, worker_thread, threads, stopping, handled>>
  /\ SocraticFrame

\* what _route_message(m) does with m
Routing(m) ==
  IF m.recipient \notin Registered THEN "dropped"
  ELSE IF m.type \in SocraticHandlers THEN "handling"
  ELSE "unhandled"

\* _process_messages: pop(0) under the lock, then _route_message, which
\* calls receive_message and with it the handler
SocraticRoute ==
  /\ bus_thread = "check"
  /\ bus_running
  /\ message_queue # <<>>
  /\ LET m == Head(message_queue) IN
       /\ message_queue' = Tail(message_queue)
       /\ bus_log' = Append(bus_log, LogEntry(Routing(m), m.id, m))
       /\ bus_thread' = IF Routing(m) = "handling" THEN "handling"
                        ELSE "check"
  /\ UNCHANGED <<bus_running, next_id>>
  /\ UNCHANGED <<running, worker_thread, threads, stopping, handled>>
  /\ SocraticFrame

\* the handler returned to receive_message, and that to the dispatcher
SocraticHandlerReturn ==
  /\ bus_thread = "handling"
  /\ LET e == bus_log[Len(bus_log)] IN
       handled' = [handled EXCEPT ![e.to] =
                     Append(@, [id |-> e.id, outcome |-> "returned"])]
  /\ bus_thread' = "check"
  /\ UNCHANGED <<message_queue, bus_running, next_id, bus_log>>
  /\ UNCHANGED <<running, worker_thread, threads, stopping>>
  /\ SocraticFrame

\* SocraticSystem.__init__: the bus is started, no actor is
SocraticInit ==
  /\ agents = SocraticRegistry
  /\ message_queue = <<>>
  /\ bus_running = TRUE
  /\ bus_thread = "check"
  /\ bus_stopping = FALSE
  /\ inbox = [a \in Names |-> <<>>]
  /\ running = [a \in Names |-> FALSE]
  /\ worker_thread = [a \in Names |-> NoThread]
  /\ threads = [a \in Names |-> [w \in Workers |-> DeadThread]]
  /\ stopping = [a \in Names |-> FALSE]
  /\ next_id = 1
  /\ bus_log = <<>>
  /\ handled = [a \in Names |-> <<>>]
  /\ NoConversations

SocraticNext ==
  \/ \E t \in SocraticTemplates : SocraticSend(t)
  \/ SocraticRoute
  \/ SocraticHandlerReturn
  \/ \E a \in SocraticAgents : SocraticStart(a)
  \/ \E a \in SocraticAgents : SocraticStop(a)
  \/ \E a \in SocraticAgents : SocraticStopReturn(a)
  \/ \E a \in SocraticAgents, w \in Workers : SocraticLoopExit(a, w)

SocraticSpec == SocraticInit /\ [][SocraticNext]_vars

\* ------------------------------------------------------------------------
\* Properties of start and of delivery
\* ------------------------------------------------------------------------
\* C17: no step adds a thread to an actor that is running or changes which
\* thread is its worker: start on a running actor spawns nothing and
\* changes nothing (fails for the Socratic BaseAgent, whose start has no
\* test of self.running).
C17_StartIdempotent ==
  [][\A a \in Names : running[a] =>
       /\ {w \in Workers : threads'[a][w].pc # "dead"} \subseteq LoopThreads(a)
       /\ worker_thread'[a] = worker_thread[a]]_vars

\* C18: handing a message to a registered recipient is only an enqueue
\* onto that actor's inbox: the step of the dispatcher that takes a
\* message for a registered actor appends it to the actor's inbox and does
\* nothing else (fails for the Ablation_4 orchestrator, whose
\* receive_message runs _handle_system_control in the dispatcher's thread
\* and puts nothing in an inbox).
C18_DeliveryIsEnqueue ==
  [][\A a \in Names :
       ( /\ bus_thread = "get"
         /\ message_queue # <<>>
         /\ message_queue' = Tail(message_queue)
         /\ Head(message_queue).recipient = a
         /\ agents[a] # NoAgent )
       => inbox'[a] = Append(inbox[a], Head(message_queue))]_vars

\* ------------------------------------------------------------------------
\* The registry specification: the bus is running, callers send, and new
\* actor objects are registered under names that are already bound
\* ------------------------------------------------------------------------
\* the number of actor objects created under one name
MaxInstances == 2

\* the names under which a second object is registered
ReboundNames == {"student", "teacher"}

RegistryTemplates ==
  { [sender |-> "orchestrator", recipient |-> "student",
     type |-> "task_request"],
    [sender |-> "student", recipient |-> "teacher", type |-> "task_request"],
    [sender |-> "student", recipient |-> "knowledge",
     type |-> "task_request"] }

\* the object a name is bound to: 0 when the name is not registered
BoundInstance(a) == IF agents[a] = NoAgent THEN 0 ELSE registry.generation[a]

\* EventBus.send_message; registry.sent_to keeps which object the
\* recipient's name was bound to when the message was enqueued
RegistrySend(t) ==
  /\ next_id <= MaxMsgs
  /\ message_queue' = send_message(message_queue,
        Message(next_id, t.sender, t.recipient, t.type, EmptyContent))
  /\ next_id' = next_id + 1
  /\ registry' = [registry EXCEPT
                    !.sent_to = Append(@, BoundInstance(t.recipient))]
  /\ UNCHANGED <<agents, bus_running, bus_thread, bus_stopping, bus_log>>
  /\ UNCHANGED agentVars
  /\ UNCHANGED <<conversations, conversation_data, clock, ops, student_agent,
                 main, teacher_agent, llm, terminate, state, calls, timers>>

\* register_agent(agent) with a new BaseAgent object whose name is a:
\* self.agents[agent.name] = agent. The object bound before keeps its own
\* inbox; the new object starts with an empty one.
RegisterAgent(a) ==
  /\ agents[a] # NoAgent
  /\ registry.generation[a] < MaxInstances
  /\ agents' = [agents EXCEPT ![a] = "BaseAgent"]
  /\ registry' = [registry EXCEPT
                    !.generation[a] = @ + 1,
                    !.retired[a] = Append(@, inbox[a])]
  /\ inbox' = [inbox EXCEPT ![a] = <<>>]
  /\ UNCHANGED <<message_queue, bus_running, bus_thread, bus_stopping,
                 next_id, bus_log>>
  /\ UNCHANGED <<running, worker_thread, threads, stopping, handled>>
  /\ UNCHANGED <<conversations, conversation_data, clock, ops, student_agent,
                 main, teacher_agent, llm, terminate, state, calls, timers>>

\* the bus is started, the actors are registered and not started
RegistryInit ==
  /\ agents = Ablation4Registry
  /\ message_queue = <<>>
  /\ bus_running = TRUE
  /\ bus_thread = "check"
  /\ bus_stopping = FALSE
  /\ inbox = [a \in Names |-> <<>>]
  /\ running = [a \in Names |-> FALSE]
  /\ worker_thread = [a \in Names |-> NoThread]
  /\ threads = [a \in Names |-> [w \in Workers |-> DeadThread]]
  /\ stopping = [a \in Names |-> FALSE]
  /\ next_id = 1
  /\ bus_log = <<>>
  /\ handled = [a \in Names |-> <<>>]
  /\ NoConversations

RegistryNext ==
  \/ \E t \in RegistryTemplates : RegistrySend(t)
  \/ \E a \in ReboundNames : RegisterAgent(a)
  \/ DispatcherCheck
  \/ DispatcherEmpty
  \/ DispatcherDeliver

RegistrySpec == RegistryInit /\ [][RegistryNext]_vars

\* ------------------------------------------------------------------------
\* Properties of the registry
\* ------------------------------------------------------------------------
\* C20: after a name is registered again, a message sent later reaches the
\* new object, and a message that was already queued for the name reaches
\* the object bound when it was sent or nobody, never the new object: every
\* message in the inbox of the object a name is bound to was sent while the
\* name was bound to that object (fails: _deliver_message looks the name up
\* when it delivers).
C20_NoRetarget ==
  \A a \in Names : \A k \in DOMAIN inbox[a] :
    registry.sent_to[inbox[a][k].id] = registry.generation[a]

\* ------------------------------------------------------------------------
\* Properties of the threads that write conversation records
\* ------------------------------------------------------------------------
\* the orchestrator's worker is inside a handler that writes the record of
\* conversation c: add_message appends to it, end_conversation ends it
WorkerWrites(c) ==
  \E w \in Workers :
    /\ threads["orchestrator"][w].pc = "handling"
    /\ threads["orchestrator"][w].msg.type = "system_control"
    /\ threads["orchestrator"][w].msg.content.conversation_id = c
    /\ threads["orchestrator"][w].msg.content.action
         \in {"add_message", "end_conversation"}

\* C19: every write of a conversation record is made by one thread, so
\* main never writes the record of a conversation while the orchestrator's
\* worker is inside a handler that writes the same record (fails: on its
\* timeout main calls _end_conversation in its own thread).
C19_SingleOwner ==
  [][\A c \in ConvIds :
       (main' # main /\ conversations'[c] # conversations[c])
         => ~WorkerWrites(c)]_vars

\* ------------------------------------------------------------------------
\* The teaching specification: a whole dialogue of Teaching_Dialogue.  main
\* starts the conversation and stays in its wait loop; the dispatcher and
\* the workers of the student, the teacher, the monitor and the
\* orchestrator run under fair scheduling.  A worker step takes the next
\* message of the inbox and runs its handler to the end.  Every call of the
\* collaborator returns a text or None.
\* ------------------------------------------------------------------------
\* the collaborator calls that may return None in one dialogue
MaxFailures == 1

\* the drafts the monitor may reject in one dialogue
MaxRejects == 1

\* the student turn at which the judge of conversation_analyzer ends the
\* dialogue at the latest
MaxTurns == 3

\* ConversationAnalyzer.max_rounds
analyzer_max_rounds == 10

TeachingAgents == {"student", "teacher", "monitor", "orchestrator"}

\* the default texts of the three generation steps that have one
StudentFallback == "student_fallback"
TeacherFallback == "teacher_fallback"
RegenerateFallback == "regenerate_fallback"

\* call_llm may return None while the bound on failures allows it
CanFail(l) == l.script = "free" /\ Len(l.failed) < MaxFailures

\* the results of a call whose successful answer is text
Generated(l, text) == {text} \cup (IF CanFail(l) THEN {""} ELSE {})

\* the collaborator after the call at site returned response
LLMAfter(l, site, response) ==
  IF response = "" THEN [l EXCEPT !.failed = Append(@, site)] ELSE l

\* the answers of the judge about student turn number turn: its JSON says
\* to continue or to end, or the call returns None
JudgeAnswers(l, turn) ==
  IF l.script = "smooth" THEN {"continue"}
  ELSE {"end"} \cup (IF turn < MaxTurns THEN {"continue"} ELSE {})
               \cup (IF CanFail(l) THEN {"null"} ELSE {})

\* the drafts a monitor that is hard to please may reject in one dialogue
MaxReviews == 3

\* the verdicts of the monitor's review call
Verdicts(l) ==
  {"approved"}
    \cup (IF \/ l.script = "free" /\ Len(l.rejected) < MaxRejects
             \/ l.script = "strict" /\ Len(l.rejected) < MaxReviews
            THEN {"rejected"} ELSE {})
    \cup (IF CanFail(l) THEN {"null"} ELSE {})

\* analyze_conversation_end(student_response, history, round_number, ...)
analyze_conversation_end(round_number, answer) ==
  IF round_number >= analyzer_max_rounds THEN "end"
  ELSE IF answer = "null" THEN "raise"
  ELSE answer

\* _add_to_conversation_history(sender, content) of the student
StudentHistoryAppend(h, sender, text) ==
  Append(h, [sender |-> sender, content |-> text,
             round |-> (Len(h) \div 2) + 1])

\* a student that answers with whatever the call returned
student_response_raw(response) == response

\* _generate_student_response: the text of the reply
student_response(response) ==
  IF response = "" THEN StudentFallback ELSE response

\* the add_message request of an actor to the orchestrator
AddMessage(sender, cid, text) ==
  Draft(sender, "orchestrator", "system_control",
        [EmptyContent EXCEPT !.action = "add_message",
                             !.conversation_id = cid,
                             !.sender = sender,
                             !.content = text])

\* StudentAgent._handle_teacher_response(message): the agent, the messages
\* sent and the way the handler ended, when the generation call returned
\* response and the judge answered answer
StudentTeacherResponse(m, response, answer) ==
  LET teacher_message == m.content.teacher_message
      round_number == m.content.round_number
      reply == student_response(response)
      cid == student_agent.conversation_id
      heard == StudentHistoryAppend(student_agent.conversation_history,
                                    "teacher", teacher_message)
      record == AddMessage("student", cid, reply)
      verdict == analyze_conversation_end(round_number + 1, answer)
  IN IF reply = ""
       THEN [agent |-> [student_agent EXCEPT !.conversation_history = heard],
             sends |-> << record >>, outcome |-> "returned"]
       ELSE [agent |-> [student_agent EXCEPT !.conversation_history =
                          StudentHistoryAppend(heard, "student", reply)],
             sends |->
               IF verdict = "raise" THEN << record >>
               ELSE IF verdict = "end"
                 THEN << record,
                         Draft("student", "orchestrator", "system_control",
                               [EmptyContent EXCEPT
                                  !.action = "end_conversation",
                                  !.conversation_id = cid]) >>
               ELSE << record,
                       Draft("student", "teacher", "task_request",
                             [EmptyContent EXCEPT
                                !.conversation_id = cid,
                                !.student_message = reply,
                                !.round_number = round_number + 1]) >>,
             outcome |-> IF verdict = "raise" THEN "raised" ELSE "returned"]

\* _generate_teaching_response_with_knowledge: the text of the draft
teaching_response(response) ==
  IF response = "" THEN TeacherFallback ELSE response

\* the review request of the teacher for a draft
ReviewRequest(cid, draft, student_message, round_number) ==
  Draft("teacher", "monitor", "review_request",
        [EmptyContent EXCEPT !.conversation_id = cid,
                             !.teacher_response = draft,
                             !.student_message = student_message,
                             !.round_number = round_number])

\* TeacherAgent._handle_student_message(message)
TeacherStudentMessage(m, response) ==
  [agent |->
     [conversation_id |-> m.content.conversation_id,
      conversation_history |->
        Append(teacher_agent.conversation_history,
               [role |-> "student", content |-> m.content.student_message,
                round |-> m.content.round_number])],
   sends |-> << ReviewRequest(m.content.conversation_id,
                              teaching_response(response),
                              m.content.student_message,
                              m.content.round_number) >>,
   outcome |-> "returned"]

\* TeacherAgent._send_approved_response(teacher_response, round_number)
send_approved_response(text, round_number) ==
  [agent |->
     [teacher_agent EXCEPT !.conversation_history =
        Append(@, [role |-> "teacher", content |-> text,
                   round |-> round_number])],
   sends |->
     << Draft("teacher", "student", "task_response",
              [EmptyContent EXCEPT
                 !.conversation_id = teacher_agent.conversation_id,
                 !.teacher_response = text,
                 !.round_number = round_number]),
        AddMessage("teacher", teacher_agent.conversation_id, text) >>,
   outcome |-> "returned"]

\* TeacherAgent._regenerate_response(student_message, feedback, round)
regenerate_response(m, response) ==
  IF response # ""
    THEN [agent |-> teacher_agent,
          sends |-> << ReviewRequest(teacher_agent.conversation_id, response,
                                     m.content.student_message,
                                     m.content.round_number) >>,
          outcome |-> "returned"]
    ELSE send_approved_response(RegenerateFallback, m.content.round_number)

\* TeacherAgent._handle_monitor_feedback(message)
TeacherMonitorFeedback(m, response) ==
  IF m.content.approved
    THEN send_approved_response(m.content.teacher_response,
                                m.content.round_number)
    ELSE regenerate_response(m, response)

\* TeacherAgent._handle_system_control(message)
TeacherSystemControl(m) ==
  [agent |-> IF m.content.action = "conversation_ended"
               THEN [conversation_id |-> NoConversationId,
                     conversation_history |-> <<>>]
               ELSE teacher_agent,
   sends |-> <<>>, outcome |-> "returned"]

\* _comprehensive_review: approved of the result; a reply that cannot be
\* read counts as approved
Approved(verdict) == verdict # "rejected"

\* MonitorAgent._handle_review_request(message)
MonitorReviewRequest(m, verdict) ==
  << Draft("monitor", "teacher", "review_response",
           [EmptyContent EXCEPT
              !.conversation_id = m.content.conversation_id,
              !.teacher_response = m.content.teacher_response,
              !.student_message = m.content.student_message,
              !.round_number = m.content.round_number,
              !.approved = Approved(verdict),
              !.feedback = IF Approved(verdict) THEN "" ELSE "feedback"]) >>

\* what a worker step leaves behind besides the handler's own effect: the
\* message is off the inbox and _handle_message has logged how it ended
TeachFrame(a, m, outcome) ==
  /\ inbox' = [inbox EXCEPT ![a] = Tail(@)]
  /\ handled' = [handled EXCEPT ![a] =
                   Append(@, [id |-> m.id, outcome |-> outcome])]
  /\ UNCHANGED <<agents, bus_running, bus_thread, bus_stopping, bus_log>>
  /\ UNCHANGED <<running, worker_thread, threads, stopping>>
  /\ UNCHANGED <<clock, ops, main, registry, terminate, state, calls,
                 timers>>

\* the worker of actor a has a message to take
Takes(a) ==
  /\ running[a]
  /\ threads[a][worker_thread[a]].pc = "check"
  /\ inbox[a] # <<>>

\* the student's worker: _handle_task_request, _handle_teacher_response or
\* _handle_system_control
TeachStudent ==
  /\ Takes("student")
  /\ LET m == Head(inbox["student"]) IN
       \/ /\ m.type = "task_request"
          /\ \E response \in Generated(llm, "reply") :
               /\ StudentTaskRequest(m, response)
               /\ llm' = LLMAfter(llm, "first_message", response)
          /\ TeachFrame("student", m, "returned")
          /\ UNCHANGED teacher_agent
       \/ /\ m.type = "task_response"
          /\ \E response \in Generated(llm, "reply") :
               LET l == LLMAfter(llm, "student_response", response)
                   asked == m.content.round_number + 1 < analyzer_max_rounds
               IN \E answer \in (IF asked
                                   THEN JudgeAnswers(l, m.content.round_number + 1)
                                   ELSE {"end"}) :
                    LET r == StudentTeacherResponse(m, response, answer) IN
                      /\ student_agent' = r.agent
                      /\ Apply(Effect(conversations, conversation_data,
                                      r.sends))
                      /\ llm' = IF asked /\ answer = "null"
                                  THEN LLMAfter(l, "judge", "") ELSE l
                      /\ TeachFrame("student", m, r.outcome)
          /\ UNCHANGED teacher_agent
       \/ /\ m.type = "system_control"
          /\ StudentSystemControl(m)
          /\ TeachFrame("student", m, "returned")
          /\ UNCHANGED <<teacher_agent, llm>>

\* the teacher's worker: _handle_student_message, _handle_monitor_feedback
\* or _handle_system_control.  The calls of the emotion, intention and
\* strategy steps replace a missing answer by a default analysis and do not
\* change what is sent.
TeachTeacher ==
  /\ Takes("teacher")
  /\ LET m == Head(inbox["teacher"]) IN
       /\ m.type \in {"task_request", "review_response", "system_control"}
       /\ \E response \in
               (IF m.type = "task_request" THEN Generated(llm, "draft")
                ELSE IF m.type = "review_response" /\ ~m.content.approved
                  THEN Generated(llm, "redraft")
                ELSE {"none"}) :
            LET r == IF m.type = "task_request"
                       THEN TeacherStudentMessage(m, response)
                     ELSE IF m.type = "review_response"
                       THEN TeacherMonitorFeedback(m, response)
                     ELSE TeacherSystemControl(m)
            IN /\ teacher_agent' = r.agent
               /\ Apply(Effect(conversations, conversation_data, r.sends))
               /\ llm' = LLMAfter(llm,
                           IF m.type = "task_request"
                             THEN "teaching_response" ELSE "regenerate",
                           response)
               /\ TeachFrame("teacher", m, r.outcome)
       /\ UNCHANGED student_agent

\* the monitor's worker: _handle_review_request
TeachMonitor ==
  /\ Takes("monitor")
  /\ LET m == Head(inbox["monitor"]) IN
       /\ m.type \in {"review_request", "system_control"}
       /\ IF m.type = "review_request"
            THEN \E verdict \in Verdicts(llm) :
                   /\ Apply(Effect(conversations, conversation_data,
                                   MonitorReviewRequest(m, verdict)))
                   /\ llm' = IF verdict = "rejected"
                               THEN [llm EXCEPT !.rejected =
                                       Append(@, m.content.round_number)]
                             ELSE IF verdict = "null"
                               THEN LLMAfter(llm, "review", "")
                             ELSE llm
            ELSE /\ Apply(Effect(conversations, conversation_data, <<>>))
                 /\ UNCHANGED llm
       /\ TeachFrame("monitor", m, "returned")
  /\ UNCHANGED <<student_agent, teacher_agent>>

\* the orchestrator's worker: _handle_system_control
TeachOrchestrator ==
  /\ Takes("orchestrator")
  /\ LET m == Head(inbox["orchestrator"]) IN
       /\ m.type = "system_control"
       /\ Apply(Orchestrator_handle_system_control(m.content))
       /\ TeachFrame("orchestrator", m, "returned")
  /\ UNCHANGED <<student_agent, teacher_agent, llm>>

TeachStep(a) ==
  \/ a = "student" /\ TeachStudent
  \/ a = "teacher" /\ TeachTeacher
  \/ a = "monitor" /\ TeachMonitor
  \/ a = "orchestrator" /\ TeachOrchestrator

\* main has registered and started the bus and every actor
TeachingInit == DialogueInit

\* the same start with a collaborator that always answers, a monitor that
\* approves every draft and a judge that never ends the dialogue
RoundsInit ==
  /\ agents = DialogueRegistry
  /\ message_queue = <<>>
  /\ bus_running = TRUE
  /\ bus_thread = "check"
  /\ bus_stopping = FALSE
  /\ inbox = [a \in Names |-> <<>>]
  /\ running = [a \in Names |-> TRUE]
  /\ worker_thread = [a \in Names |-> 1]
  /\ threads = [a \in Names |-> [w \in Workers |->
        IF w = 1 THEN [pc |-> "check", msg |-> NoMsg] ELSE DeadThread]]
  /\ stopping = [a \in Names |-> FALSE]
  /\ next_id = 1
  /\ bus_log = <<>>
  /\ handled = [a \in Names |-> <<>>]
  /\ conversations = [c \in ConvIds |-> NoConversation]
  /\ conversation_data = [c \in ConvIds |-> NoData]
  /\ clock = 0
  /\ ops = 0
  /\ student_agent = [conversation_id |-> NoConversationId,
                      conversation_history |-> <<>>]
  /\ main = [pc |-> "knowledge", conversation_id |-> NoConversationId]
  /\ teacher_agent = [conversation_id |-> NoConversationId,
                      conversation_history |-> <<>>]
  /\ llm = [AnyAnswer EXCEPT !.script = "smooth"]
  /\ registry = NoRebinding
  /\ terminate = NoCall
  /\ state = [a \in Names |-> 0]
  /\ calls = <<>>
  /\ timers = NoTime

TeachingNext ==
  \/ MainRequestKnowledge
  \/ MainStartConversation("c1")
  \/ DispatcherCheck
  \/ DispatcherEmpty
  \/ DispatcherDeliver
  \/ TeachStudent
  \/ TeachTeacher
  \/ TeachMonitor
  \/ TeachOrchestrator

TeachingSpec ==
  /\ TeachingInit
  /\ [][TeachingNext]_vars
  /\ WF_vars(Dispatcher)
  /\ \A a \in TeachingAgents : WF_vars(TeachStep(a))

\* a whole dialogue in which nothing fails and only the round limit of the
\* analyzer ends the turns
RoundsSpec ==
  /\ RoundsInit
  /\ [][TeachingNext]_vars
  /\ WF_vars(Dispatcher)
  /\ \A a \in TeachingAgents : WF_vars(TeachStep(a))

\* ------------------------------------------------------------------------
\* Properties of a whole dialogue
\* ------------------------------------------------------------------------
\* max_rounds of orchestrator_agent.start_conversation(problem, max_rounds=5)
configured_max_rounds == 5

\* C14: the number of student turns of a conversation never exceeds the
\* max_rounds the conversation was started with, in the tracker's record
\* and in the student's own history, and the student sends the teacher no
\* request for a later round (fails: nothing reads the configured value,
\* the only limit is the analyzer's 10).
C14_RoundCap ==
  /\ \A c \in ConvIds :
       conversations[c].current_round <= configured_max_rounds
  /\ StudentTurns(student_agent.conversation_history)
       <= configured_max_rounds
  /\ \A k \in DOMAIN message_queue :
       (message_queue[k].sender = "student"
          /\ message_queue[k].type = "task_request")
       => message_queue[k].content.round_number <= configured_max_rounds

\* the student's worker takes the teacher's reply m in this step
StudentHears(m) ==
  /\ Takes("student")
  /\ m = Head(inbox["student"])
  /\ m.type = "task_response"
  /\ inbox'["student"] = Tail(inbox["student"])

\* C11: when the monitor rejected the draft of a round and approved the
\* regenerated draft, the reply delivered to the student carries the
\* regenerated text and that text is what the student records as the
\* teacher's turn and answers (fails: the student reads the key
\* teacher_message, the teacher sends teacher_response).
C11_ScenarioB ==
  [][\A m \in Range(inbox["student"]) :
       ( /\ StudentHears(m)
         /\ m.content.round_number \in Range(llm.rejected)
         /\ m.content.teacher_response = "redraft" )
       => LET h == student_agent'.conversation_history
              k == Len(student_agent.conversation_history) + 1
          IN /\ Len(h) >= k
             /\ h[k].sender = "teacher"
             /\ h[k].content = "redraft"]_vars

\* the sites of the calls that returned None in this step
NewFailures ==
  {llm'.failed[k] : k \in (Len(llm.failed) + 1)..Len(llm'.failed)}

\* this step sent a message of the given sender and type whose field holds
\* text
SentWith(sender, type, field, text) ==
  \E j \in DOMAIN Appended :
    /\ Appended[j].sender = sender
    /\ Appended[j].type = type
    /\ Appended[j].content[field] = text

\* C15: when the call of a generation step returns None, the text the
\* actor produces is the default text of that step (the student's first
\* message and reply, the teacher's draft and regenerated draft), and the
\* worker of every actor is still in its loop afterwards.
C15_Fallback ==
  [][/\ "first_message" \in NewFailures =>
          SentWith("student", "system_control", "content", "fallback")
     /\ "student_response" \in NewFailures =>
          SentWith("student", "system_control", "content", "student_fallback")
     /\ "teaching_response" \in NewFailures =>
          SentWith("teacher", "review_request", "teacher_response",
                   "teacher_fallback")
     /\ "regenerate" \in NewFailures =>
          SentWith("teacher", "task_response", "teacher_response",
                   "regenerate_fallback")
     /\ NewFailures # {} =>
          \A a \in TeachingAgents :
            running'[a] /\ threads'[a][worker_thread'[a]].pc = "check"]_vars

\* the tracker has recorded the student's default reply
C15_Witness ==
  /\ "student_response" \in Range(llm.failed)
  /\ \E k \in DOMAIN conversations["c1"].history :
       /\ conversations["c1"].history[k].sender = "student"
       /\ conversations["c1"].history[k].content = "student_fallback"

RegistryCallers == {"main", "other"}

\* the name the callers register and unregister
MutexNames == {"student"}

\* the threads that are inside register_agent or unregister_agent
InsideRegistry(r) == {t \in RegistryCallers : r.calls[t].pc # "idle"}

RegistryFrame ==
  /\ UNCHANGED <<message_queue, bus_running, bus_thread, bus_stopping,
                 next_id, bus_log>>
  /\ UNCHANGED <<running, worker_thread, threads, stopping, handled>>
  /\ UNCHANGED <<conversations, conversation_data, clock, ops, student_agent,
                 main, teacher_agent, llm, terminate, state, calls, timers>>

\* unregister_agent: if agent_name in self.agents
UnregisterCheck(t, a) ==
  /\ registry.calls[t].pc = "idle"
  /\ agents[a] # NoAgent
  /\ registry' = [registry EXCEPT !.calls[t] = [pc |-> "found", name |-> a]]
  /\ UNCHANGED <<agents, inbox>>
  /\ RegistryFrame

\* unregister_agent: del self.agents[agent_name]; KeyError when another
\* thread deleted the name after this thread's test
UnregisterDelete(t) ==
  /\ registry.calls[t].pc = "found"
  /\ LET a == registry.calls[t].name IN
       /\ agents' = [agents EXCEPT ![a] = NoAgent]
       /\ registry' = [registry EXCEPT
            !.calls[t] = [pc |-> "idle", name |-> ""],
            !.raised = IF agents[a] = NoAgent THEN @ \cup {t} ELSE @]
  /\ UNCHANGED inbox
  /\ RegistryFrame

\* register_agent: self.agents[agent.name] = agent, with a new object
RegisterStore(t, a) ==
  /\ registry.calls[t].pc = "idle"
  /\ registry.generation[a] < MaxInstances
  /\ agents' = [agents EXCEPT ![a] = "BaseAgent"]
  /\ registry' = [registry EXCEPT
                    !.generation[a] = @ + 1,
                    !.retired[a] = Append(@, inbox[a]),
                    !.calls[t] = [pc |-> "attach", name |-> a]]
  /\ inbox' = [inbox EXCEPT ![a] = <<>>]
  /\ RegistryFrame

\* register_agent: agent.set_event_bus(self), and the call returns
RegisterAttach(t) ==
  /\ registry.calls[t].pc = "attach"
  /\ registry' = [registry EXCEPT !.calls[t] = [pc |-> "idle", name |-> ""]]
  /\ UNCHANGED <<agents, inbox>>
  /\ RegistryFrame

MutexNext ==
  \/ \E t \in RegistryTemplates : RegistrySend(t)
  \/ \E t \in RegistryCallers : \E a \in MutexNames : UnregisterCheck(t, a)
  \/ \E t \in RegistryCallers : UnregisterDelete(t)
  \/ \E t \in RegistryCallers : \E a \in MutexNames : RegisterStore(t, a)
  \/ \E t \in RegistryCallers : RegisterAttach(t)
  \/ DispatcherCheck
  \/ DispatcherEmpty
  \/ DispatcherDeliver

MutexSpec == RegistryInit /\ [][MutexNext]_vars

\* the dispatcher looks a recipient up in this step
DispatcherLooksUp ==
  /\ bus_thread = "get"
  /\ message_queue # <<>>
  /\ bus_thread' = "check"

\* C21: register_agent and unregister_agent run under mutual exclusion: at
\* most one thread is inside a registry mutation at any time, the
\* dispatcher looks a recipient up only while no thread is inside one, and
\* so no unregister_agent call finds its name gone after its own test
\* (fails: self.agents is an unguarded dict).
C21_RegistryMutex ==
  [][ /\ Cardinality(InsideRegistry(registry')) <= 1
      /\ DispatcherLooksUp => InsideRegistry(registry) = {}
      /\ registry'.raised = {} ]_vars

\* ------------------------------------------------------------------------
\* The Socratic actors' send_message: BaseAgent.send_message of
\* Socratic_QA_System/core.py, which no subclass overrides
\* ------------------------------------------------------------------------
\* the send_message calls of the Socratic teacher (_send_for_monitoring)
\* and monitor (_handle_review_request)
SocraticCalls ==
  { [sender |-> "teacher", recipient |-> "monitor",
     type |-> "review_request"],
    [sender |-> "monitor", recipient |-> "teacher",
     type |-> "review_response"] }

\* BaseAgent.send_message(recipient, message_type, content): the Message
\* is built and a line is logged; the Message is handed to nobody
SocraticAgentSend(t) ==
  /\ Len(calls) < MaxMsgs
  /\ agents[t.sender] # NoAgent
  /\ calls' = Append(calls, [sender |-> t.sender, recipient |-> t.recipient,
                             type |-> t.type, content |-> EmptyContent])
  /\ UNCHANGED <<message_queue, bus_running, bus_thread, next_id, bus_log>>
  /\ UNCHANGED <<running, worker_thread, threads, stopping, handled>>
  /\ UNCHANGED <<agents, bus_stopping, inbox>>
  /\ UNCHANGED <<conversations, conversation_data, clock, ops, student_agent,
                 main, teacher_agent, llm, registry, terminate, state,
                 timers>>

\* the results of _review_teacher_response: the default result when the
\* call returned None or text that is not JSON, or the parsed JSON object
\* with the keys the prompt asks for, or one that also has quality_score
SocraticReviews ==
  { [verdict |-> "null", approved |-> TRUE, keys |-> {"approved", "reason"}],
    [verdict |-> "unparseable", approved |-> TRUE,
     keys |-> {"approved", "reason"}],
    [verdict |-> "approved", approved |-> TRUE,
     keys |-> {"approved", "reason"}],
    [verdict |-> "rejected", approved |-> FALSE,
     keys |-> {"approved", "reason", "feedback"}],
    [verdict |-> "scored", approved |-> FALSE,
     keys |-> {"approved", "reason", "feedback", "quality_score"}] }

\* the head of the bus queue is a review request for the registered monitor
ReviewRequestNext ==
  /\ message_queue # <<>>
  /\ Head(message_queue).type = "review_request"
  /\ Head(message_queue).recipient = "monitor"
  /\ agents["monitor"] # NoAgent

\* _route_message of a review request: MonitorAgent._handle_review_request
\* runs in the dispatcher's thread. review_result["feedback"] and
\* review_result["quality_score"] raise KeyError when the key is missing;
\* otherwise the handler calls BaseAgent.send_message
SocraticReview(r) ==
  /\ bus_thread = "check"
  /\ bus_running
  /\ ReviewRequestNext
  /\ LET m == Head(message_queue)
         sent == {"feedback", "quality_score"} \subseteq r.keys
     IN /\ message_queue' = Tail(message_queue)
        /\ bus_log' = Append(bus_log, LogEntry("handling", m.id, m))
        /\ handled' = [handled EXCEPT !["monitor"] =
              Append(@, [id |-> m.id,
                         outcome |-> IF sent THEN "returned" ELSE "raised"])]
        /\ calls' = IF sent
                      THEN Append(calls,
                             [sender |-> "monitor", recipient |-> "teacher",
                              type |-> "review_response",
                              content |-> [m.content EXCEPT
                                             !.approved = r.approved]])
                      ELSE calls
  /\ UNCHANGED <<bus_running, bus_thread, next_id>>
  /\ UNCHANGED <<running, worker_thread, threads, stopping>>
  /\ UNCHANGED <<agents, bus_stopping, inbox>>
  /\ UNCHANGED <<conversations, conversation_data, clock, ops, student_agent,
                 main, teacher_agent, llm, registry, terminate, state,
                 timers>>

\* _route_message of any other message
SocraticRouteOther == ~ReviewRequestNext /\ SocraticRoute

WrapperNext ==
  \/ \E t \in SocraticTemplates : SocraticSend(t)
  \/ \E t \in SocraticCalls : SocraticAgentSend(t)
  \/ \E r \in SocraticReviews : SocraticReview(r)
  \/ SocraticRouteOther
  \/ SocraticHandlerReturn

WrapperSpec == SocraticInit /\ [][WrapperNext]_vars

\* C22: every send_message call of an actor registered on a bus appends
\* exactly one Message to the bus queue, with the actor's name as sender
\* and the recipient, kind and payload of the call (fails for the Socratic
\* actors, whose send_message builds the Message and drops it).
C22_SendWrapper ==
  [][calls' # calls =>
       LET c == calls'[Len(calls')]
           q == message_queue'
       IN /\ Len(q) = Len(message_queue) + 1
          /\ SubSeq(q, 1, Len(message_queue)) = message_queue
          /\ q[Len(q)].sender = c.sender
          /\ q[Len(q)].recipient = c.recipient
          /\ q[Len(q)].type = c.type
          /\ q[Len(q)].content = c.content]_vars

\* the monitor handles a review request in this step
ReviewHandled ==
  Len(handled'["monitor"]) = Len(handled["monitor"]) + 1

\* the response content echoes the request content
Echoes(response, request) ==
  /\ response.conversation_id = request.conversation_id
  /\ response.teacher_response = request.teacher_response
  /\ response.student_message = request.student_message
  /\ response.round_number = request.round_number

\* C26: every review request the monitor handles puts exactly one
\* review_response for the teacher on the bus, which echoes the draft, the
\* student's message and the round number of the request (fails for the
\* Socratic monitor, whose handler raises KeyError on the default result
\* and whose send_message enqueues nothing).
C26_ReviewAnswered ==
  [][ReviewHandled /\ ReviewRequestNext =>
       LET m == Head(message_queue)
           q == message_queue'
       IN /\ q # <<>>
          /\ Tail(message_queue) = SubSeq(q, 1, Len(q) - 1)
          /\ q[Len(q)].type = "review_response"
          /\ q[Len(q)].sender = "monitor"
          /\ q[Len(q)].recipient = "teacher"
          /\ Echoes(q[Len(q)].content, m.content)]_vars

\* ------------------------------------------------------------------------
\* Properties of the default handlers
\* ------------------------------------------------------------------------
\* the kind of the message with id i, as the dispatcher logged it
KindOf(i) ==
  IF \E k \in DOMAIN bus_log : bus_log[k].id = i
    THEN bus_log[CHOOSE k \in DOMAIN bus_log : bus_log[k].id = i].type
    ELSE ""

\* actor a has handled a termination message
TerminationSeen(a) ==
  \E k \in DOMAIN handled[a] : KindOf(handled[a][k].id) = "termination"

\* start() by a caller, who does not start an actor again once it has
\* handled a termination message
StartBeforeTermination(a) == ~TerminationSeen(a) /\ AgentStart(a)

\* the started system with callers of start and stop
TerminationNext ==
  \/ \E t \in SendTemplates : Send(t)
  \/ DispatcherCheck
  \/ DispatcherEmpty
  \/ DispatcherDeliver
  \/ \E a \in CoreAgents : StartBeforeTermination(a)
  \/ \E a \in CoreAgents : AgentStop(a)
  \/ \E a \in CoreAgents : AgentStopReturn(a)
  \/ \E a \in CoreAgents : AgentStopTimeout(a)
  \/ \E a \in CoreAgents, w \in Workers : WorkerCheck(a, w)
  \/ \E a \in CoreAgents, w \in Workers : WorkerEmpty(a, w)
  \/ \E a \in CoreAgents, w \in Workers : WorkerGet(a, w)
  \/ \E a \in CoreAgents, w \in Workers : WorkerHandle(a, w)

TerminationSpec == FairInit /\ [][TerminationNext]_vars

\* a worker of actor a takes a message from the inbox in this step
TakesFromInbox(a) == inbox[a] # <<>> /\ inbox'[a] = Tail(inbox[a])

\* C23: the handler of a termination message calls stop(): once an actor
\* has handled a termination message its running flag is cleared, and no
\* worker of the actor takes a message that is still in its inbox (fails
\* when a second worker of the same actor is already past its test of the
\* flag).
C23_TerminationStops ==
  [][\A a \in Names :
       /\ TerminationSeen(a)' => ~running'[a]
       /\ TerminationSeen(a) => ~TakesFromInbox(a)]_vars

\* ------------------------------------------------------------------------
\* The error specification: the reflection actor of the Ablation_4 wiring,
\* whose reflection handler keeps a counter in its state store and sends
\* its result to the orchestrator, and which receives error notices for
\* messages sent in its name that the inline orchestrator cannot read
\* ------------------------------------------------------------------------
ErrorTemplates ==
  { [sender |-> "orchestrator", recipient |-> "reflection",
     type |-> "reflection_request", raises |-> FALSE],
    [sender |-> "reflection", recipient |-> "orchestrator",
     type |-> "system_control", raises |-> TRUE],
    [sender |-> "orchestrator", recipient |-> "reflection",
     type |-> "termination", raises |-> FALSE] }

\* _handle_error that answers the notice with a message to its sender
HandlerSends_answering(a, m) ==
  IF m.type \in {"reflection_request", "error"}
    THEN << Draft(a, "orchestrator", "reflection_response", EmptyContent) >>
    ELSE <<>>

\* what the handler of m sends: _handle_reflection_request sends its result
\* to the orchestrator, _handle_error and _handle_termination send nothing
HandlerSends(a, m) ==
  IF m.type = "reflection_request"
    THEN << Draft(a, "orchestrator", "reflection_response", EmptyContent) >>
    ELSE <<>>

\* the state store after the handler of m: _handle_reflection_request
\* counts experiences_generated, the handlers of the base class write
\* nothing
HandlerState(a, m) ==
  IF m.type = "reflection_request" THEN [state EXCEPT ![a] = @ + 1]
  ELSE state

ErrorSend(t) ==
  /\ next_id <= MaxMsgs
  /\ message_queue' = send_message(message_queue,
        Message(next_id, t.sender, t.recipient, t.type,
                [EmptyContent EXCEPT !.raises = t.raises]))
  /\ next_id' = next_id + 1
  /\ UNCHANGED <<agents, bus_running, bus_thread, bus_stopping, bus_log>>
  /\ UNCHANGED agentVars
  /\ UNCHANGED convVars

\* _handle_message(message) of the reflection actor
ReflectionHandle(w) ==
  /\ threads["reflection"][w].pc = "handling"
  /\ LET m == threads["reflection"][w].msg
         sends == Stamp(HandlerSends("reflection", m), next_id)
     IN /\ threads' = [threads EXCEPT !["reflection"][w] = AfterHandle(m)]
        /\ running' = RunningAfter("reflection", m)
        /\ handled' = [handled EXCEPT !["reflection"] =
                         Append(@, [id |-> m.id, outcome |-> "returned"])]
        /\ state' = HandlerState("reflection", m)
        /\ message_queue' = message_queue \o sends
        /\ next_id' = next_id + Len(sends)
  /\ UNCHANGED <<agents, bus_running, bus_thread, bus_stopping, bus_log>>
  /\ UNCHANGED <<inbox, worker_thread, stopping>>
  /\ UNCHANGED <<conversations, conversation_data, clock, ops, student_agent,
                 main, teacher_agent, llm, registry, terminate, calls,
                 timers>>

ErrorNext ==
  \/ \E t \in ErrorTemplates : ErrorSend(t)
  \/ DispatcherCheck
  \/ DispatcherEmpty
  \/ DispatcherDeliver
  \/ \E w \in Workers : WorkerCheck("reflection", w)
  \/ \E w \in Workers : WorkerEmpty("reflection", w)
  \/ \E w \in Workers : WorkerGet("reflection", w)
  \/ \E w \in Workers : ReflectionHandle(w)

ErrorSpec == FairInit /\ [][ErrorNext]_vars

\* worker w of actor a finishes the handler of an error message in this
\* step
HandlesError(a, w) ==
  /\ threads[a][w].pc = "handling"
  /\ threads[a][w].msg.type = "error"
  /\ threads'[a][w].pc # "handling"

\* C24: the default error handler only logs: the step in which an actor
\* handles an error message leaves its state store, its running flag and
\* its inbox unchanged and puts no message on the bus, so no error notice
\* is built because of an error notice.
C24_ErrorLogOnly ==
  [][\A a \in Names : \A w \in Workers :
       HandlesError(a, w) =>
         /\ state' = state
         /\ running' = running
         /\ inbox' = inbox
         /\ message_queue' = message_queue
         /\ next_id' = next_id
         /\ bus_log' = bus_log]_vars

\* the reflection actor has counted a reflection and then handled an error
\* notice; it is still running
C24_Witness ==
  /\ state["reflection"] = 1
  /\ running["reflection"]
  /\ Len(handled["reflection"]) = 2
  /\ KindOf(handled["reflection"][2].id) = "error"

\* ------------------------------------------------------------------------
\* The shutdown specification: the started system with time. Callers send
\* and call stop() on the student and on the bus; a thread waits at most
\* its poll timeout in get, a handler returns promptly, and a join waits at
\* most its timeout. timers counts the seconds the student's worker has
\* spent in its current inbox.get and handler, the dispatcher in its
\* current queue.get, and the callers of stop() in their joins.
\* ------------------------------------------------------------------------
\* BaseAgent.stop: self.worker_thread.join(timeout=5)
join_timeout == 5

\* an inbox poll longer than the join
inbox_get_timeout_slow == join_timeout + 1

\* BaseAgent._process_inbox: self.inbox.get(timeout=1)
inbox_get_timeout == 1

\* EventBus.stop: self.worker_thread.join(timeout=5)
bus_join_timeout == 5

\* EventBus._process_messages: self.message_queue.get(timeout=1)
queue_get_timeout == 1

\* a handler finishes promptly: within what a join leaves after one poll
PromptLimit == join_timeout - inbox_get_timeout - 1

TimedFrame ==
  UNCHANGED <<conversations, conversation_data, clock, ops, student_agent,
              main, teacher_agent, llm, registry, terminate, state, calls>>

\* the worker of actor a that stop() joins has ended
Joined(a) ==
  \/ worker_thread[a] = NoThread
  \/ threads[a][worker_thread[a]].pc = "dead"

\* inbox.get(timeout=1) raised queue.Empty after its timeout
TimedWorkerEmpty(a, w) ==
  /\ threads[a][w].pc = "get"
  /\ inbox[a] = <<>>
  /\ timers.wait >= inbox_get_timeout
  /\ threads' = [threads EXCEPT ![a][w].pc = "check"]
  /\ timers' = [timers EXCEPT !.wait = 0]
  /\ UNCHANGED <<inbox, running, worker_thread, stopping, handled>>
  /\ UNCHANGED busVars
  /\ TimedFrame

\* inbox.get returned a message; _handle_message is entered
TimedWorkerGet(a, w) ==
  /\ threads[a][w].pc = "get"
  /\ inbox[a] # <<>>
  /\ threads' = [threads EXCEPT ![a][w] =
                    [pc |-> "handling", msg |-> Head(inbox[a])]]
  /\ inbox' = [inbox EXCEPT ![a] = Tail(@)]
  /\ timers' = [timers EXCEPT !.wait = 0, !.busy = 0]
  /\ UNCHANGED <<running, worker_thread, stopping, handled>>
  /\ UNCHANGED busVars
  /\ TimedFrame

\* _handle_message(message) returned
TimedWorkerHandle(a, w) ==
  /\ threads[a][w].pc = "handling"
  /\ LET m == threads[a][w].msg IN
       /\ threads' = [threads EXCEPT ![a][w] = AfterHandle(m)]
       /\ running' = RunningAfter(a, m)
       /\ handled' = [handled EXCEPT ![a] =
                        Append(@, [id |-> m.id, outcome |-> Outcome(m)])]
  /\ timers' = [timers EXCEPT !.busy = 0]
  /\ UNCHANGED <<inbox, worker_thread, stopping>>
  /\ UNCHANGED busVars
  /\ TimedFrame

\* BaseAgent.stop: join returned, because the worker ended or because the
\* timeout ran out
TimedStopReturn(a) ==
  /\ stopping[a]
  /\ Joined(a) \/ timers.join >= join_timeout
  /\ stopping' = [stopping EXCEPT ![a] = FALSE]
  /\ timers' = [timers EXCEPT !.join = 0]
  /\ UNCHANGED <<inbox, running, worker_thread, threads, handled>>
  /\ UNCHANGED busVars
  /\ TimedFrame

\* message_queue.get(timeout=1) raised queue.Empty after its timeout
TimedDispatcherEmpty ==
  /\ bus_thread = "get"
  /\ message_queue = <<>>
  /\ timers.bus_wait >= queue_get_timeout
  /\ bus_thread' = "check"
  /\ timers' = [timers EXCEPT !.bus_wait = 0]
  /\ UNCHANGED <<agents, message_queue, bus_running, bus_stopping, next_id,
                 bus_log>>
  /\ UNCHANGED agentVars
  /\ TimedFrame

\* message = queue.get(); self._deliver_message(message)
TimedDispatcherDeliver ==
  /\ bus_thread = "get"
  /\ message_queue # <<>>
  /\ LET m == Head(message_queue) IN
       /\ message_queue' = QueueAfterGet(m)
       /\ inbox' = DeliverInbox(m)
       /\ bus_log' = DeliverLog(m)
       /\ next_id' = DeliverNextId(m)
  /\ bus_thread' = "check"
  /\ timers' = [timers EXCEPT !.bus_wait = 0]
  /\ UNCHANGED <<agents, bus_running, bus_stopping>>
  /\ UNCHANGED <<running, worker_thread, threads, stopping, handled>>
  /\ TimedFrame

\* EventBus.stop: join returned
TimedBusStopReturn ==
  /\ bus_stopping
  /\ bus_thread = "dead" \/ timers.bus_join >= bus_join_timeout
  /\ bus_stopping' = FALSE
  /\ timers' = [timers EXCEPT !.bus_join = 0]
  /\ UNCHANGED <<agents, message_queue, bus_running, bus_thread, next_id,
                 bus_log>>
  /\ UNCHANGED agentVars
  /\ TimedFrame

\* the worker of a is waiting in inbox.get / is inside a handler
InGet(a) == \E w \in Workers : threads[a][w].pc = "get"
InHandler(a) == \E w \in Workers : threads[a][w].pc = "handling"

\* a step that takes no time is due: a test of the running flag, a get
\* whose queue holds a message, a join whose thread has ended
Due(a) ==
  \/ \E w \in Workers : threads[a][w].pc = "check"
  \/ InGet(a) /\ inbox[a] # <<>>
  \/ bus_thread = "check"
  \/ bus_thread = "get" /\ message_queue # <<>>
  \/ stopping[a] /\ Joined(a)
  \/ bus_stopping /\ bus_thread = "dead"

\* one second passes for every thread that is waiting
Tick(a) ==
  /\ ~Due(a)
  /\ InGet(a) => timers.wait < inbox_get_timeout
  /\ InHandler(a) => timers.busy < PromptLimit
  /\ bus_thread = "get" => timers.bus_wait < queue_get_timeout
  /\ stopping[a] => timers.join < join_timeout
  /\ bus_stopping => timers.bus_join < bus_join_timeout
  /\ InGet(a) \/ InHandler(a) \/ bus_thread = "get" \/ stopping[a]
       \/ bus_stopping
  /\ timers' =
       [wait |-> IF InGet(a) THEN timers.wait + 1 ELSE timers.wait,
        busy |-> IF InHandler(a) THEN timers.busy + 1 ELSE timers.busy,
        join |-> IF stopping[a] THEN timers.join + 1 ELSE timers.join,
        bus_wait |-> IF bus_thread = "get" THEN timers.bus_wait + 1
                     ELSE timers.bus_wait,
        bus_join |-> IF bus_stopping THEN timers.bus_join + 1
                     ELSE timers.bus_join]
  /\ UNCHANGED busVars
  /\ UNCHANGED agentVars
  /\ TimedFrame

ShutdownNext ==
  \/ \E t \in SendTemplates : Send(t)
  \/ BusStop
  \/ TimedBusStopReturn
  \/ DispatcherCheck
  \/ TimedDispatcherEmpty
  \/ TimedDispatcherDeliver
  \/ \E a \in CoreAgents : AgentStop(a)
  \/ \E a \in CoreAgents : TimedStopReturn(a)
  \/ \E a \in CoreAgents, w \in Workers : WorkerCheck(a, w)
  \/ \E a \in CoreAgents, w \in Workers : TimedWorkerEmpty(a, w)
  \/ \E a \in CoreAgents, w \in Workers : TimedWorkerGet(a, w)
  \/ \E a \in CoreAgents, w \in Workers : TimedWorkerHandle(a, w)
  \/ \E a \in CoreAgents : Tick(a)

ShutdownSpec == FairInit /\ [][ShutdownNext]_vars

\* C25: when every handler finishes promptly, stop() returns with the
\* actor's worker thread ended, before the join's timeout has run out; the
\* same holds for EventBus.stop and the dispatcher thread.
C25_BoundedStop ==
  [][ /\ \A a \in CoreAgents :
           stopping[a] /\ ~stopping'[a] =>
             Joined(a) /\ timers.join < join_timeout
      /\ bus_stopping /\ ~bus_stopping' =>
           bus_thread = "dead" /\ timers.bus_join < bus_join_timeout ]_vars

\* a caller of stop() has waited in its join while the worker finished a
\* handler that took its full time, and the worker has now ended
C25_Witness ==
  /\ stopping["student"]
  /\ Joined("student")
  /\ timers.join = join_timeout - 1
  /\ handled["student"] # <<>>

\* ------------------------------------------------------------------------
\* Properties of the student's and the teacher's protocol steps
\* ------------------------------------------------------------------------
\* the messages this step put on the bus queue
NewlySent ==
  SubSeq(message_queue', Len(message_queue) + 1, Len(message_queue'))

\* the positions in sq of the student's messages of one kind
StudentEnds(sq) ==
  {k \in DOMAIN sq : /\ sq[k].sender = "student"
                     /\ sq[k].recipient = "orchestrator"
                     /\ sq[k].type = "system_control"
                     /\ sq[k].content.action = "end_conversation"}
StudentAsks(sq) ==
  {k \in DOMAIN sq : /\ sq[k].sender = "student"
                     /\ sq[k].recipient = "teacher"
                     /\ sq[k].type = "task_request"}
StudentRecords(sq) ==
  {k \in DOMAIN sq : /\ sq[k].sender = "student"
                     /\ sq[k].recipient = "orchestrator"
                     /\ sq[k].type = "system_control"
                     /\ sq[k].content.action = "add_message"
                     /\ sq[k].content.sender = "student"}

\* C27: when the student handles the teacher's reply of round n, it
\* reports its own reply to the orchestrator and sends exactly one of an
\* end_conversation request to the orchestrator and a request to the
\* teacher with round_number n + 1 (fails: when the analyzer raises, the
\* handler ends after the report and sends neither).
C27_StudentStep ==
  [][\A m \in Range(inbox["student"]) :
       StudentHears(m) =>
         LET sent == NewlySent IN
           /\ Cardinality(StudentRecords(sent)) = 1
           /\ Cardinality(StudentEnds(sent)) + Cardinality(StudentAsks(sent))
                = 1
           /\ \A k \in StudentAsks(sent) :
                sent[k].content.round_number = m.content.round_number + 1]_vars

\* ------------------------------------------------------------------------
\* The review specification: the dialogue of the teaching specification
\* with a collaborator that always answers and a monitor that may reject
\* draft after draft
\* ------------------------------------------------------------------------
ReviewInit ==
  /\ agents = DialogueRegistry
  /\ message_queue = <<>>
  /\ bus_running = TRUE
  /\ bus_thread = "check"
  /\ bus_stopping = FALSE
  /\ inbox = [a \in Names |-> <<>>]
  /\ running = [a \in Names |-> TRUE]
  /\ worker_thread = [a \in Names |-> 1]
  /\ threads = [a \in Names |-> [w \in Workers |->
        IF w = 1 THEN [pc |-> "check", msg |-> NoMsg] ELSE DeadThread]]
  /\ stopping = [a \in Names |-> FALSE]
  /\ next_id = 1
  /\ bus_log = <<>>
  /\ handled = [a \in Names |-> <<>>]
  /\ conversations = [c \in ConvIds |-> NoConversation]
  /\ conversation_data = [c \in ConvIds |-> NoData]
  /\ clock = 0
  /\ ops = 0
  /\ student_agent = [conversation_id |-> NoConversationId,
                      conversation_history |-> <<>>]
  /\ main = [pc |-> "knowledge", conversation_id |-> NoConversationId]
  /\ teacher_agent = [conversation_id |-> NoConversationId,
                      conversation_history |-> <<>>]
  /\ llm = [AnyAnswer EXCEPT !.script = "strict"]
  /\ registry = NoRebinding
  /\ terminate = NoCall
  /\ state = [a \in Names |-> 0]
  /\ calls = <<>>
  /\ timers = NoTime

ReviewSpec ==
  /\ ReviewInit
  /\ [][TeachingNext]_vars
  /\ WF_vars(Dispatcher)
  /\ \A a \in TeachingAgents : WF_vars(TeachStep(a))

\* MonitorAgent.max_review_attempts
max_review_attempts == 3

\* the drafts of round n the monitor has rejected
RejectedDrafts(n) == {k \in DOMAIN llm.rejected : llm.rejected[k] = n}

\* the drafts of round n on their way to the monitor
PendingDrafts(n) ==
  LET waiting == message_queue \o inbox["monitor"] IN
    {k \in DOMAIN waiting : /\ waiting[k].type = "review_request"
                            /\ waiting[k].sender = "teacher"
                            /\ waiting[k].content.round_number = n}

\* the drafts the teacher has submitted for round n, counting the rejected
\* ones and the ones not yet reviewed
DraftsSubmitted(n) ==
  Cardinality(RejectedDrafts(n)) + Cardinality(PendingDrafts(n))

\* C28: for any learner message the teacher submits at most
\* max_review_attempts (3) drafts to the monitor for that round (fails:
\* nothing reads max_review_attempts, and the teacher submits a new draft
\* after every rejection).
C28_ReviewBounded ==
  \A n \in 1..analyzer_max_rounds : DraftsSubmitted(n) <= max_review_attempts

\* ------------------------------------------------------------------------
\* Properties of the end of a dialogue
\* ------------------------------------------------------------------------
\* OrchestratorAgent.get_conversation_status(conversation_id)
get_conversation_status(c) == conversation_data[c]

\* the orchestrator actor has handled an end_conversation request for c,
\* which was active
EndHandled(c) ==
  /\ conversation_data[c].status = "ending"
  /\ \E k \in DOMAIN bus_log :
       /\ bus_log[k].ev = "delivered"
       /\ bus_log[k].to = "orchestrator"
       /\ bus_log[k].from = "student"
       /\ \E h \in Range(handled["orchestrator"]) : h.id = bus_log[k].id

\* C29: after the orchestrator actor handles an end_conversation request
\* for an active conversation, the status returned by
\* get_conversation_status eventually becomes "completed" while the caller
\* only waits (fails: the conversation_ended notices go to the four
\* participants and never to the orchestrator, whose _cleanup_conversation
\* is the only writer of "completed").
C29_CompletionObservable ==
  \A c \in ConvIds :
    EndHandled(c) ~> (get_conversation_status(c).status = "completed")

\* ------------------------------------------------------------------------
\* Properties of the conversation record's round counter
\* ------------------------------------------------------------------------
\* the student's entries among the first k entries of history h
StudentEntries(h, k) == {j \in 1..k : h[j].sender = "student"}

\* C30: in every state of a conversation record the round counter equals
\* the number of history entries whose sender is the student, and each
\* entry's round field equals the number of student entries up to and
\* including that entry.
C30_RoundMatchesHistory ==
  \A c \in ConvIds :
    LET conv == conversations[c] IN
      /\ conv.current_round =
           Cardinality(StudentEntries(conv.history, Len(conv.history)))
      /\ \A k \in DOMAIN conv.history :
           conv.history[k].round =
             Cardinality(StudentEntries(conv.history, k))

\* a record with a teacher's entry between two entries of the student
C30_Witness ==
  \E c \in ConvIds :
    LET conv == conversations[c] IN
      /\ Len(conv.history) >= 3
      /\ conv.history[1].sender = "student"
      /\ conv.history[2].sender = "teacher"
      /\ conv.history[3].sender = "student"
      /\ conv.history[2].round = 1
      /\ conv.current_round = 2

\* ------------------------------------------------------------------------
\* The order specification: the dialogue of the teaching specification in
\* which nothing fails and every draft is approved, with the two
\* send_message calls of the teacher's _send_approved_response as two
\* steps of the teacher's worker thread, so that the dispatcher and the
\* other workers can run between them
\* ------------------------------------------------------------------------
\* the teacher's worker is about to handle an approved review response
TeacherApprovedNext ==
  /\ Takes("teacher")
  /\ Head(inbox["teacher"]).type = "review_response"
  /\ Head(inbox["teacher"]).content.approved

\* what a step of the teacher's worker inside _send_approved_response
\* leaves alone
SendingFrame ==
  /\ UNCHANGED <<agents, bus_running, bus_thread, bus_stopping, bus_log>>
  /\ UNCHANGED <<running, worker_thread, stopping>>
  /\ UNCHANGED <<clock, ops, main, registry, terminate, state, calls,
                 timers>>
  /\ UNCHANGED <<student_agent, llm>>

\* _send_approved_response up to and including its first send_message:
\* the reply is appended to the teacher's own history and the
\* TASK_RESPONSE for the student is put on the bus
TeacherSendReply ==
  /\ TeacherApprovedNext
  /\ LET m == Head(inbox["teacher"])
         r == send_approved_response(m.content.teacher_response,
                                     m.content.round_number)
     IN /\ teacher_agent' = r.agent
        /\ Apply(Effect(conversations, conversation_data, << r.sends[1] >>))
        /\ inbox' = [inbox EXCEPT !["teacher"] = Tail(@)]
        /\ threads' = [threads EXCEPT !["teacher"][worker_thread["teacher"]] =
                         [pc |-> "handling", msg |-> m]]
        /\ UNCHANGED handled
  /\ SendingFrame

\* the second send_message of _send_approved_response: the add_message
\* request for the orchestrator; the handler returns
TeacherSendRecord ==
  /\ running["teacher"]
  /\ threads["teacher"][worker_thread["teacher"]].pc = "handling"
  /\ LET m == threads["teacher"][worker_thread["teacher"]].msg IN
       /\ Apply(Effect(conversations, conversation_data,
                       << AddMessage("teacher", teacher_agent.conversation_id,
                                     m.content.teacher_response) >>))
       /\ handled' = [handled EXCEPT !["teacher"] =
                        Append(@, [id |-> m.id, outcome |-> "returned"])]
       /\ threads' = [threads EXCEPT !["teacher"][worker_thread["teacher"]] =
                        [pc |-> "check", msg |-> NoMsg]]
  /\ UNCHANGED <<teacher_agent, inbox>>
  /\ SendingFrame

\* the teacher's other handlers, each in one step
TeachTeacherOther == ~TeacherApprovedNext /\ TeachTeacher

OrderNext ==
  \/ MainRequestKnowledge
  \/ MainStartConversation("c1")
  \/ DispatcherCheck
  \/ DispatcherEmpty
  \/ DispatcherDeliver
  \/ TeachStudent
  \/ TeachTeacherOther
  \/ TeacherSendReply
  \/ TeacherSendRecord
  \/ TeachMonitor
  \/ TeachOrchestrator

OrderSpec == RoundsInit /\ [][OrderNext]_vars

\* C31: in the tracker's history the entries strictly alternate student,
\* teacher, student, ...: each approved teacher reply is recorded before
\* the student reply that answers it (fails: the teacher puts its reply for
\* the student on the bus before its add_message request, and the student
\* can answer and send its own add_message in between).
C31_HistoryAlternates ==
  \A c \in ConvIds : \A k \in DOMAIN conversations[c].history :
    conversations[c].history[k].sender =
      (IF k % 2 = 1 THEN "student" ELSE "teacher")

\* ------------------------------------------------------------------------
\* Properties of the notices of an ended conversation
\* ------------------------------------------------------------------------
\* the positions in sq of the conversation_ended notices of conversation c
\* for participant p
EndNotices(sq, c, p) ==
  {j \in DOMAIN sq : /\ sq[j].recipient = p
                     /\ sq[j].type = "system_control"
                     /\ sq[j].content.action = "conversation_ended"
                     /\ sq[j].content.conversation_id = c}

\* C32: when a conversation is ended, every participant is sent exactly
\* one conversation_ended control message, whichever path ended it (fails:
\* the orchestrator actor's _end_conversation notifies the four actors
\* itself and then calls the tracker's end_conversation, which notifies
\* the participants again).
C32_EndNoticeOnce ==
  [][\A c \in ConvIds :
       Ends(c) =>
         \A k \in DOMAIN conversations[c].participants :
           Cardinality(EndNotices(Appended, c,
                                  conversations[c].participants[k])) = 1]_vars

\* ------------------------------------------------------------------------
\* The question-answer specification: main of Socratic_QA_System asks the
\* teacher a question per round through the bus and reads the answer out
\* of the teacher's conversation_history, while the dispatcher thread runs
\* the teacher's handler.  The content of a history entry is a text and the
\* round of the question it was written for.
\* ------------------------------------------------------------------------
\* the questions the user asks in one session
MaxQuestions == 3

\* the text _handle_student_message stores before the pipeline has run
Placeholder == "placeholder"

\* what the pipeline leaves in the history: its reply, or the apology of
\* the branches for None and for an exception
PipelineTexts == {"reply", "apology"}

\* the parts of the state the question-answer loop does not touch
QAFrame ==
  /\ UNCHANGED <<agents, bus_running, bus_stopping, inbox>>
  /\ UNCHANGED <<running, worker_thread, threads, stopping>>
  /\ UNCHANGED <<conversations, conversation_data, clock, ops, student_agent,
                 llm, registry, terminate, state, timers>>

\* _process_user_question up to its wait: the round number goes up and the
\* TASK_REQUEST for the teacher is put on the bus
QAAsk ==
  /\ main.pc = "ask"
  /\ main.round_number < MaxQuestions
  /\ message_queue' = Append(message_queue,
       Message(next_id, "system", "teacher", "task_request",
               [EmptyContent EXCEPT
                  !.conversation_id = main.conversation_id,
                  !.student_message = "question",
                  !.round_number = main.round_number + 1]))
  /\ next_id' = next_id + 1
  /\ main' = [main EXCEPT !.pc = "poll", !.round_number = @ + 1]
  /\ UNCHANGED <<bus_thread, bus_log, handled, teacher_agent, calls>>
  /\ QAFrame

\* _process_messages takes the request and _route_message calls the
\* teacher's receive_message on the dispatcher thread:
\* _handle_student_message appends the question and the placeholder
QARoute ==
  /\ bus_thread = "check"
  /\ bus_running
  /\ message_queue # <<>>
  /\ LET m == Head(message_queue)
         n == m.content.round_number
     IN /\ message_queue' = Tail(message_queue)
        /\ bus_log' = Append(bus_log, LogEntry("handling", m.id, m))
        /\ teacher_agent' =
             [conversation_id |-> m.content.conversation_id,
              conversation_history |->
                teacher_agent.conversation_history \o
                  << [role |-> "student",
                      content |-> [text |-> m.content.student_message,
                                   of |-> n],
                      round |-> n],
                     [role |-> "teacher",
                      content |-> [text |-> Placeholder, of |-> n],
                      round |-> n] >>]
  /\ bus_thread' = "handling"
  /\ UNCHANGED <<next_id, handled, main, calls>>
  /\ QAFrame

\* _update_teacher_response(round_number, new_content): the first
\* placeholder of the round is overwritten
update_teacher_response(h, round_number, new_content) ==
  LET hits == {i \in DOMAIN h : /\ h[i].role = "teacher"
                                /\ h[i].round = round_number
                                /\ h[i].content.text = Placeholder}
  IN IF hits = {} THEN h
     ELSE LET i == CHOOSE x \in hits : \A y \in hits : x <= y
          IN [h EXCEPT ![i].content = new_content]

\* the rest of _handle_student_message: the pipeline ran, the placeholder
\* is overwritten, a reply is passed to _send_for_monitoring, and the
\* handler returns to the dispatcher
QAGenerate ==
  /\ bus_thread = "handling"
  /\ LET e == bus_log[Len(bus_log)]
         n == teacher_agent.conversation_history[
                Len(teacher_agent.conversation_history)].round
     IN \E text \in PipelineTexts :
          /\ teacher_agent' = [teacher_agent EXCEPT !.conversation_history =
               update_teacher_response(@, n, [text |-> text, of |-> n])]
          /\ calls' = IF text = "reply"
                        THEN Append(calls,
                               [sender |-> "teacher", recipient |-> "monitor",
                                type |-> "review_request",
                                content |-> EmptyContent])
                        ELSE calls
          /\ handled' = [handled EXCEPT ![e.to] =
                           Append(@, [id |-> e.id, outcome |-> "returned"])]
  /\ bus_thread' = "check"
  /\ UNCHANGED <<message_queue, next_id, bus_log, main>>
  /\ QAFrame

\* the entries _get_teacher_response accepts: written by the teacher, not
\* empty and not the placeholder
Answers(h) ==
  {k \in DOMAIN h : /\ h[k].role = "teacher"
                    /\ h[k].content.text # ""
                    /\ h[k].content.text # Placeholder}

\* _get_teacher_response: the history is scanned from its end and the
\* first accepted entry is returned; while there is none the caller sleeps
\* and looks again.  _process_user_question prints what was returned.
QAPoll ==
  /\ main.pc = "poll"
  /\ Answers(teacher_agent.conversation_history) # {}
  /\ LET h == teacher_agent.conversation_history
         k == CHOOSE x \in Answers(h) : \A y \in Answers(h) : y <= x
     IN main' = [main EXCEPT
                   !.pc = "ask",
                   !.returned = Append(@, [round |-> main.round_number,
                                           content |-> h[k].content])]
  /\ UNCHANGED <<message_queue, next_id, bus_thread, bus_log, handled,
                 teacher_agent, calls>>
  /\ QAFrame

\* SocraticQASystem after start_conversation: the bus runs, nothing asked
QAInit ==
  /\ agents = SocraticRegistry
  /\ message_queue = <<>>
  /\ bus_running = TRUE
  /\ bus_thread = "check"
  /\ bus_stopping = FALSE
  /\ inbox = [a \in Names |-> <<>>]
  /\ running = [a \in Names |-> FALSE]
  /\ worker_thread = [a \in Names |-> NoThread]
  /\ threads = [a \in Names |-> [w \in Workers |-> DeadThread]]
  /\ stopping = [a \in Names |-> FALSE]
  /\ next_id = 1
  /\ bus_log = <<>>
  /\ handled = [a \in Names |-> <<>>]
  /\ conversations = [c \in ConvIds |-> NoConversation]
  /\ conversation_data = [c \in ConvIds |-> NoData]
  /\ clock = 0
  /\ ops = 0
  /\ student_agent = [conversation_id |-> NoConversationId,
                      conversation_history |-> <<>>]
  /\ main = [pc |-> "ask", conversation_id |-> "c1", round_number |-> 0,
             returned |-> <<>>]
  /\ teacher_agent = [conversation_id |-> NoConversationId,
                      conversation_history |-> <<>>]
  /\ llm = AnyAnswer
  /\ registry = NoRebinding
  /\ terminate = NoCall
  /\ state = [a \in Names |-> 0]
  /\ calls = <<>>
  /\ timers = NoTime

QANext ==
  \/ QAAsk
  \/ QARoute
  \/ QAGenerate
  \/ QAPoll

QASpec == QAInit /\ [][QANext]_vars

\* C33: the teacher reply returned to the user for round n is the reply
\* the teacher generated for the question of round n, never the
\* placeholder and never the reply of an earlier round (fails: the scan
\* of _get_teacher_response passes over the placeholder of round n, or
\* runs before the request is routed, and returns the reply of round
\* n - 1).
C33_ReplyOfRound ==
  \A k \in DOMAIN main.returned :
    /\ main.returned[k].content.text # Placeholder
    /\ main.returned[k].content.of = main.returned[k].round

====
